---- MODULE Spec2Model ----
(***************************************************************************)
(* A model of the NOAA climate pipeline of climate_mortality:              *)
(*   utils/interpolation.py    monthly observations -> monthly grids       *)
(*   utils/annualized.py       monthly grids        -> annual min/mean/max *)
(*   utils/connect_noaa_who.py annual grids         -> per-country table   *)
(*                                                                         *)
(* The durable directories are state variables (one file per unit of work);*)
(* every function of the source is an operator that computes what the code *)
(* computes, and every action is one call of a function on the current     *)
(* directories.  A Python exception is a result of its own, [exc |-> name].*)
(*                                                                         *)
(* Numbers.  A float is modelled as a binary floating-point number with    *)
(* Prec significant bits, written as an integer count of units of 0.05     *)
(* (so 273.15 is 5463 and 20 is 400).  Every arithmetic operation rounds   *)
(* its exact result to the nearest representable number, ties to even, as  *)
(* IEEE-754 does with 53 bits.                                             *)
(***************************************************************************)
EXTENDS Integers, Sequences, FiniteSets, TLC

VARIABLES
    compiled,       \* compiled_dir:     <<var, year, month>> -> file | Missing
    interpolated,   \* interpolated_dir: <<var, year, month>> -> file | Missing
    annualized,     \* annualized_dir:   <<var, year>>        -> file | Missing
    shapes,         \* the country shapefile: sequence of [NAME, points]
    combined,       \* combined/country_center_climates.csv | Missing
    method,         \* the interpolation method of the run
    dupSuffixRaises,\* the installed pandas refuses suffix-made duplicate columns
    ret,            \* the last call: function, arguments, result
    stage,          \* the loop a batch run is in: "idle", "interpolate", "annualize"
    caller,         \* the batch function that was called, or "none"
    order,          \* the order in which this process iterates INTERPOLATION_COLUMNS
    unit,           \* the loop variables of the batch run: <<k, year[, month]>>
    attempted,      \* the units the batch run has entered
    reported,       \* the units the batch run has printed as missing
    written,        \* the units whose file the batch run has written
    filtered,       \* the CSV at the outfile of asc_to_filtered_csv | Missing
    trimmed,        \* the CSV at the output_name of trim_file | Missing
    grouped,        \* the CSV at the dest_name of _make_one_group | Missing
    token_fp,       \* the open file read_token reads: [chars, pos]
    tokens          \* the values read_token has returned on token_fp, in order

\* the variables of a batch run
batchVars == <<stage, caller, order, unit, attempted, reported, written>>

\* the files and the open file of the NOAA and token readers
noaaVars == <<trimmed, grouped, token_fp, tokens>>

vars == <<compiled, interpolated, annualized, shapes, combined, method,
          dupSuffixRaises, ret, batchVars, filtered, noaaVars>>

-----------------------------------------------------------------------------
(* Bounds of the model *)

\* months per year: the code loops over range(1, 13)
NumMonths == 3
\* years per batch: the code loops over range(1995, 2021) / range(1995, 2022)
NumYears == 2
\* significant bits of a float (53 in the code's float64)
Prec == 16
MaxCols == 3
MaxLen == 4
MaxCalls == 4
MaxRows == 2

(* Program constants *)

FirstYear == 1995
\* 273.15 and 20, in units of 0.05
Kelvin == 5463
Comfort == 400
\* units per 1.0: the resolution that writes 273.15 as a whole number
UnitsPerOne == 20

Months == 1..NumMonths
\* the years of build_composite_climate_df: range(1995, 2021)
Years == FirstYear..(FirstYear + NumYears - 1)
\* the years of the batch loops: range(1995, 2022), one year more
BatchYears == FirstYear..(FirstYear + NumYears)

DATA_COLUMNS == {"EMNT", "PRCP", "TAVG", "EMXT", "TMAX", "TMIN"}
INTERPOLATION_COLUMNS == DATA_COLUMNS \cup {"HUMID", "HETSTRS"}
Kinds == {"nearest", "linear", "cubic"}

\* Python's range(start, stop)
range(start, stop) == start..(stop - 1)

\* range(-180, 180) and range(-90, 90) of interpolate_NOAA_map
XStart == -180
XStop == 180
YStart == -90
YStop == 90

\* The target lattice, in the code's order (x outer, y inner).  The code's
\* lattice is range(-180, 180) x range(-90, 90); the model keeps two points.
FullXi == << <<0, 0>>, <<1, 0>> >>
\* Lattices a caller may supply to interpolation_NOAA_points.
XiChoices == {FullXi, << <<0, 0>> >>, << <<1, 0>> >>}

-----------------------------------------------------------------------------
(* Python values *)

Missing == [missing |-> TRUE]
Exc(name) == [exc |-> name]
IsExc(r) == "exc" \in DOMAIN r
IsMissing(f) == "missing" \in DOMAIN f
NoCall == [fn |-> "none"]

\* A float that may be NaN: <<>> is NaN, <<v>> is the number v.
NaN == <<>>
Num(v) == <<v>>
IsNaN(x) == x = <<>>

Range(s) == {s[i] : i \in 1..Len(s)}

\* F applied to the value of x: x is evaluated once, as Python evaluates an
\* expression once when it binds the result to a name.
Bind(x, F(_)) == CHOOSE r \in {F(b) : b \in {x}} : TRUE

-----------------------------------------------------------------------------
(* Floating-point arithmetic *)

\* The exponent e >= 0 with num/den < 2^(Prec+e), least such.
RECURSIVE Exponent(_, _, _)
Exponent(num, den, e) ==
    IF num < den * 2^(Prec + e) THEN e ELSE Exponent(num, den, e + 1)

\* num/den >= 0 rounded to Prec significant bits, ties to even.
RoundAbs(num, den) ==
    LET e == Exponent(num, den, 0)
        step == den * 2^e
        q == num \div step
        r == num - q * step
        up == (2 * r > step) \/ (2 * r = step /\ q % 2 = 1)
    IN  (IF up THEN q + 1 ELSE q) * 2^e

Round(num, den) ==
    IF num < 0 THEN 0 - RoundAbs(0 - num, den) ELSE RoundAbs(num, den)

fadd(a, b) == Round(a + b, 1)
fmul(a, b) == Round(a * b, UnitsPerOne)
fdiv(a, n) == Round(a, n)

\* Left-to-right float sum of a sequence of numbers.
RECURSIVE fsum(_)
fsum(s) ==
    IF Len(s) = 0 THEN 0
    ELSE IF Len(s) = 1 THEN s[1]
    ELSE fadd(fsum(SubSeq(s, 1, Len(s) - 1)), s[Len(s)])

\* numpy.mean / pandas mean of a non-empty sequence of numbers.
mean(s) == fdiv(fsum(s), Len(s))

\* Python's min and max of a non-empty sequence of numbers.
SeqMin(s) == CHOOSE a \in Range(s) : \A b \in Range(s) : a <= b
SeqMax(s) == CHOOSE a \in Range(s) : \A b \in Range(s) : a >= b

-----------------------------------------------------------------------------
(* Data frames                                                             *)
(*                                                                         *)
(* A grid frame is [cols, rows]: cols the names of its columns after       *)
(* LONGITUDE and LATITUDE, rows a sequence of [p, v] with p the            *)
(* <<longitude, latitude>> of the row and v its values, one per column.    *)

Frame(cols, rows) == [cols |-> cols, rows |-> rows]
Columns(df) == <<"LONGITUDE", "LATITUDE">> \o df.cols
Points(df) == {df.rows[i].p : i \in 1..Len(df.rows)}
ColIndex(df, name) == CHOOSE i \in 1..Len(df.cols) : df.cols[i] = name
\* the value of column <name> in a row
Cell(df, row, name) == row.v[ColIndex(df, name)]
\* the row of df at point p (grids written by the pipeline have one)
RowAt(df, p) == df.rows[CHOOSE i \in 1..Len(df.rows) : df.rows[i].p = p]

\* DataFrame.rename(columns={old: new})
rename(df, old, new) ==
    Frame([i \in 1..Len(df.cols) |-> IF df.cols[i] = old THEN new ELSE df.cols[i]],
          df.rows)

\* del df[name]: every column of that label goes
RECURSIVE DropAt(_, _, _)
DropAt(s, names, name) ==
    IF Len(s) = 0 THEN <<>>
    ELSE (IF Head(names) = name THEN <<>> ELSE <<Head(s)>>)
         \o DropAt(Tail(s), Tail(names), name)

delcol(df, name) ==
    Frame(DropAt(df.cols, df.cols, name),
          [i \in 1..Len(df.rows) |->
              [p |-> df.rows[i].p, v |-> DropAt(df.rows[i].v, df.cols, name)]])

\* pandas' suffixes ('_x', '_y') for the value columns both sides carry
Suffixed(names, other, sfx) ==
    [i \in 1..Len(names) |->
        IF names[i] \in Range(other) THEN names[i] \o sfx ELSE names[i]]

\* a label that the suffixes made a duplicate of an earlier label
SuffixDuplicates(orig, renamed) ==
    \E j \in 1..Len(orig) :
        /\ \E i \in 1..(j - 1) : renamed[i] = renamed[j]
        /\ ~ \E i \in 1..(j - 1) : orig[i] = orig[j]

\* the rows of an inner join on the key p, in the order of the left rows
RECURSIVE JoinRows(_, _)
JoinRows(lrows, rrows) ==
    IF Len(lrows) = 0 THEN <<>>
    ELSE LET l == Head(lrows)
             m == SelectSeq(rrows, LAMBDA r : r.p = l.p)
         IN  [i \in 1..Len(m) |-> [p |-> l.p, v |-> l.v \o m[i].v]]
             \o JoinRows(Tail(lrows), rrows)

\* Fault variant of merge: how='left' (a left row without a partner is kept,
\* the partner's columns filled with 0).
merge_left(left, right) ==
    Frame(Suffixed(left.cols, right.cols, "_x") \o Suffixed(right.cols, left.cols, "_y"),
          [i \in 1..Len(left.rows) |->
              LET l == left.rows[i]
                  m == SelectSeq(right.rows, LAMBDA r : r.p = l.p)
              IN  [p |-> l.p,
                   v |-> l.v \o (IF Len(m) = 0 THEN [k \in 1..Len(right.cols) |-> 0]
                                 ELSE m[1].v)]])

\* pd.merge(left, right, on=['LONGITUDE', 'LATITUDE']) (how='inner')
merge(left, right) ==
    LET lcols == Suffixed(left.cols, right.cols, "_x")
        rcols == Suffixed(right.cols, left.cols, "_y")
    IN  IF dupSuffixRaises /\ (SuffixDuplicates(left.cols, lcols)
                               \/ SuffixDuplicates(right.cols, rcols))
        THEN Exc("MergeError")
        ELSE Frame(lcols \o rcols, JoinRows(left.rows, right.rows))

-----------------------------------------------------------------------------
(* utils/noaa_reader.py, utils/interpolation.py *)

\* pd.read_csv of a path: the file, or FileNotFoundError
read_csv(dir, key) ==
    IF IsMissing(dir[key]) THEN Exc("FileNotFoundError") ELSE dir[key]

load_compiled_NOAA(var, year, month) == read_csv(compiled, <<var, year, month>>)

load_interpolated_NOAA(var, year, month) ==
    read_csv(interpolated, <<var, year, month>>)

\* scipy.interpolate.griddata at one query point.  A compiled file is kept
\* as the interpolant griddata derives from its observations under the
\* run's method: a number or NaN at every lattice point.
griddata(source_df, q, kind) == source_df.interp[q]

\* Fault variant of dropna: fillna(0), a NaN becomes 0 and its row stays.
dropna_fillzero(cols, rows) ==
    Frame(cols, [i \in 1..Len(rows) |->
                    [p |-> rows[i].p,
                     v |-> <<IF IsNaN(rows[i].v[1]) THEN 0 ELSE rows[i].v[1][1]>>]])

\* DataFrame.dropna() of a one-column frame of floats that may be NaN
dropna(cols, rows) ==
    LET kept == SelectSeq(rows, LAMBDA r : ~ IsNaN(r.v[1]))
    IN  Frame(cols, [i \in 1..Len(kept) |-> [p |-> kept[i].p, v |-> <<kept[i].v[1][1]>>]])

\* lines 48-57: griddata on the lattice xi, one row per point, NaN rows dropped
InterpolatedFrame(var, source_df, kind, xi) ==
    dropna(<<var>>,
           [n \in 1..Len(xi) |->
              [p |-> xi[n], v |-> <<griddata(source_df, xi[n], kind)>>]])

\* A Python call by keyword: binding fails with TypeError when a keyword is
\* no parameter of the callee, before the body runs.
CallKw(params, keywords, result) ==
    IF keywords \subseteq params THEN result ELSE Exc("TypeError")

\* the parameters of interpolate_NOAA_map
interpolate_NOAA_map_params == {"var", "year", "month", "kind"}

\* lines 76-80: the HUMID frame of two interpolated frames
HumidFrame(tavg_df, prcp_df) ==
    LET humid_df == merge(tavg_df, prcp_df)
    IN  IF IsExc(humid_df) THEN humid_df
        ELSE Frame(humid_df.cols \o <<"HUMID">>,
                   [i \in 1..Len(humid_df.rows) |->
                      LET r == humid_df.rows[i]
                          humid_t == fadd(Cell(humid_df, r, "TAVG"), Kelvin)
                      IN  [p |-> r.p,
                           v |-> r.v \o <<fmul(Cell(humid_df, r, "PRCP"), humid_t)>>]])

RECURSIVE interpolation_NOAA_points(_, _, _, _, _)

interpolate_NOAA_map(var, year, month, kind) ==
    interpolation_NOAA_points(var, year, month, kind, FullXi)

_interpolate_HUMID_points(year, month, kind, xi) ==
    LET tavg_df == CallKw(interpolate_NOAA_map_params,
                          {"var", "year", "month", "kind", "xi"},
                          interpolate_NOAA_map("TAVG", year, month, kind))
        prcp_df == CallKw(interpolate_NOAA_map_params,
                          {"var", "year", "month", "kind", "xi"},
                          interpolate_NOAA_map("PRCP", year, month, kind))
    IN  IF IsExc(tavg_df) THEN tavg_df
        ELSE IF IsExc(prcp_df) THEN prcp_df
        ELSE HumidFrame(tavg_df, prcp_df)

_interpolate_HETSTRS_points(year, month, kind, xi) ==
    LET tavg_df == CallKw(interpolate_NOAA_map_params,
                          {"var", "year", "month", "kind", "xi"},
                          interpolate_NOAA_map("TAVG", year, month, kind))
        prcp_df == CallKw(interpolate_NOAA_map_params,
                          {"var", "year", "month", "kind", "xi"},
                          interpolate_NOAA_map("PRCP", year, month, kind))
        hetstrs_df == merge(tavg_df, prcp_df)
    IN  IF IsExc(tavg_df) THEN tavg_df
        ELSE IF IsExc(prcp_df) THEN prcp_df
        ELSE IF IsExc(hetstrs_df) THEN hetstrs_df
        \* line 107 reads humid_df, a name this function never binds
        ELSE Exc("NameError")

interpolation_NOAA_points(var, year, month, kind, xi) ==
    IF var = "HUMID" THEN _interpolate_HUMID_points(year, month, kind, xi)
    ELSE IF var = "HETSTRS" THEN _interpolate_HETSTRS_points(year, month, kind, xi)
    ELSE LET source_df == load_compiled_NOAA(var, year, month)
         IN  IF IsExc(source_df) THEN source_df
             ELSE InterpolatedFrame(var, source_df, kind, xi)

interpolate_NOAA(var, year, month, kind) ==
    interpolate_NOAA_map(var, year, month, kind)

-----------------------------------------------------------------------------
(* utils/annualized.py *)

load_annualized_NOAA(var, year) == read_csv(annualized, <<var, year>>)

\* f'{var}_{month}'
MonthColumn(var, month) == var \o "_" \o ToString(month)

\* the list <columns> of annualize_NOAA
MonthColumns(var) == [month \in Months |-> MonthColumn(var, month)]

\* lines 71-87: <base> after the iteration for <month>, or the exception
\* that ended the function
RECURSIVE JoinMonths(_, _, _)
JoinMonths(var, year, month) ==
    IF month = 1
    THEN LET first == load_interpolated_NOAA(var, year, 1)
         IN  IF IsExc(first) THEN first
             ELSE rename(first, var, MonthColumn(var, 1))
    ELSE Bind(JoinMonths(var, year, month - 1), LAMBDA base :
           IF IsExc(base) THEN base
           ELSE LET additional == load_interpolated_NOAA(var, year, month)
                IN  IF IsExc(additional) THEN additional
                    ELSE merge(base, rename(additional, var, MonthColumn(var, month))))

\* base[columns] of one row: its monthly values, in the order of <columns>
MonthValues(base, row, columns) ==
    [m \in 1..Len(columns) |-> Cell(base, row, columns[m])]

\* lines 89-91: the columns min, max, mean are appended in this order
Aggregated(base, columns) ==
    Frame(base.cols \o <<"min", "max", "mean">>,
          [i \in 1..Len(base.rows) |->
              LET r == base.rows[i]
                  monthly == MonthValues(base, r, columns)
              IN  [p |-> r.p,
                   v |-> r.v \o <<SeqMin(monthly), SeqMax(monthly), mean(monthly)>>]])

\* lines 94-95: del base[col] for every col of <columns>
RECURSIVE DeleteColumns(_, _)
DeleteColumns(base, columns) ==
    IF Len(columns) = 0 THEN base
    ELSE Bind(delcol(base, Head(columns)), LAMBDA rest :
           DeleteColumns(rest, Tail(columns)))

annualize_NOAA(var, year) ==
    LET columns == MonthColumns(var)
    IN  Bind(JoinMonths(var, year, NumMonths), LAMBDA base :
           IF IsExc(base) THEN base
           ELSE Bind(Aggregated(base, columns), LAMBDA with_aggregates :
                   DeleteColumns(with_aggregates, columns)))

-----------------------------------------------------------------------------
(* utils/connect_noaa_who.py *)

MODEL_CLIMATE_VARS == <<"TMIN", "TAVG", "TMAX", "PRCP", "HUMID", "HETSTRS">>

\* sorted(MODEL_CLIMATE_VARS)
interp_vars == <<"HETSTRS", "HUMID", "PRCP", "TAVG", "TMAX", "TMIN">>

\* degrees as a float of the model
ToUnits(deg) == deg * UnitsPerOne

SetMin(S) == CHOOSE a \in S : \A b \in S : a <= b
SetMax(S) == CHOOSE a \in S : \A b \in S : a >= b

\* Python's sum of a list of integers
RECURSIVE sum(_)
sum(s) == IF Len(s) = 0 THEN 0 ELSE Head(s) + sum(Tail(s))

\* (x/l, y/l): the mean of the vertices, as floats
_get_center_of_shp(shape) ==
    LET l == Len(shape.points)
        x == sum([i \in 1..l |-> shape.points[i][1]])
        y == sum([i \in 1..l |-> shape.points[i][2]])
    IN  <<fdiv(ToUnits(x), l), fdiv(ToUnits(y), l)>>

\* The pair (table, centers).  center_dict has one entry per name, at the
\* place of the name's first record, holding the centre of its last record.
_get_country_centers ==
    LET centers == [n \in 1..Len(shapes) |-> _get_center_of_shp(shapes[n])]
        first == SelectSeq([n \in 1..Len(shapes) |-> n],
                           LAMBDA n : \A k \in 1..(n - 1) :
                                         shapes[k].NAME # shapes[n].NAME)
        last(name) == SetMax({n \in 1..Len(shapes) : shapes[n].NAME = name})
    IN  <<[i \in 1..Len(first) |->
              [country |-> shapes[first[i]].NAME,
               LONGITUDE |-> centers[last(shapes[first[i]].NAME)][1],
               LATITUDE |-> centers[last(shapes[first[i]].NAME)][2]]],
          centers>>

\* Fault variant of InBox: the bounds of the box are exclusive.
InBoxStrict(row, points) ==
    LET min_long == SetMin({p[1] : p \in Range(points)}) - 1
        max_long == SetMax({p[1] : p \in Range(points)}) + 1
        min_lat == SetMin({p[2] : p \in Range(points)}) - 1
        max_lat == SetMax({p[2] : p \in Range(points)}) + 1
    IN  /\ min_long < row.p[1] /\ row.p[1] < max_long
        /\ min_lat < row.p[2] /\ row.p[2] < max_lat

\* the boolean mask of _spatial_climate_average for one row
InBox(row, points) ==
    LET min_long == SetMin({p[1] : p \in Range(points)}) - 1
        max_long == SetMax({p[1] : p \in Range(points)}) + 1
        min_lat == SetMin({p[2] : p \in Range(points)}) - 1
        max_lat == SetMax({p[2] : p \in Range(points)}) + 1
    IN  /\ min_long <= row.p[1] /\ row.p[1] <= max_long
        /\ min_lat <= row.p[2] /\ row.p[2] <= max_lat

\* DataFrame.mean() of one column: NaN for a frame without rows
ColumnMean(values) == IF Len(values) = 0 THEN NaN ELSE Num(mean(values))

\* the dictionary returned: the mean of every column of the selected rows
_spatial_climate_average(raw_df, points) ==
    LET sel == SelectSeq(raw_df.rows, LAMBDA r : InBox(r, points))
    IN  [name \in Range(Columns(raw_df)) |->
            IF name = "LONGITUDE"
            THEN ColumnMean([i \in 1..Len(sel) |-> ToUnits(sel[i].p[1])])
            ELSE IF name = "LATITUDE"
            THEN ColumnMean([i \in 1..Len(sel) |-> ToUnits(sel[i].p[2])])
            ELSE ColumnMean([i \in 1..Len(sel) |-> Cell(raw_df, sel[i], name)])]

(* A country table is [cols, rows]: cols the names of its columns after    *)
(* country, rows a sequence of [country, v] with v one float-or-NaN per    *)
(* column.                                                                 *)
Table(cols, rows) == [cols |-> cols, rows |-> rows]
Countries(df) == {df.rows[i].country : i \in 1..Len(df.rows)}

_load_country_climate(var, year) ==
    LET names == [n \in 1..Len(shapes) |-> shapes[n].NAME]
        annualized_var == load_annualized_NOAA(var, year)
        climates == [n \in 1..Len(shapes) |->
                        _spatial_climate_average(annualized_var, shapes[n].points)]
    IN  IF IsExc(annualized_var) THEN annualized_var
        ELSE Table(<<var \o "_min", var \o "_mean", var \o "_max">>,
                   [n \in 1..Len(names) |->
                      [country |-> names[n],
                       v |-> <<climates[n]["min"], climates[n]["mean"],
                               climates[n]["max"]>>]])

\* the rows of an inner join on country, in the order of the left rows
RECURSIVE JoinCountryRows(_, _)
JoinCountryRows(lrows, rrows) ==
    IF Len(lrows) = 0 THEN <<>>
    ELSE LET l == Head(lrows)
             m == SelectSeq(rrows, LAMBDA r : r.country = l.country)
         IN  [i \in 1..Len(m) |-> [country |-> l.country, v |-> l.v \o m[i].v]]
             \o JoinCountryRows(Tail(lrows), rrows)

\* Fault variant of merge_on_country: joined rows holding a NaN are dropped.
merge_on_country_dropna(left, right) ==
    Table(left.cols \o right.cols,
          SelectSeq(JoinCountryRows(left.rows, right.rows),
                    LAMBDA r : \A k \in 1..Len(r.v) : ~ IsNaN(r.v[k])))

\* pd.merge(left, right, on='country'); no value column is on both sides
merge_on_country(left, right) ==
    Table(left.cols \o right.cols, JoinCountryRows(left.rows, right.rows))

\* lines 116-121: <base> after the variable interp_vars[k] was merged in
RECURSIVE JoinVars(_, _)
JoinVars(year, k) ==
    IF k = 1 THEN _load_country_climate(interp_vars[1], year)
    ELSE Bind(JoinVars(year, k - 1), LAMBDA base :
           IF IsExc(base) THEN base
           ELSE Bind(_load_country_climate(interp_vars[k], year), LAMBDA right :
                   IF IsExc(right) THEN right
                   ELSE merge_on_country(base, right)))

\* base['Year'] = year
WithYear(base, year) ==
    Table(base.cols \o <<"Year">>,
          [i \in 1..Len(base.rows) |->
              [country |-> base.rows[i].country,
               v |-> base.rows[i].v \o <<Num(year)>>]])

_load_climate_year(year) ==
    Bind(JoinVars(year, Len(interp_vars)), LAMBDA base :
       IF IsExc(base) THEN base ELSE WithYear(base, year))

\* Fault variant of ConcatYears: the years are stacked last to first.
RECURSIVE ConcatYearsDescending(_, _)
ConcatYearsDescending(first, last) ==
    IF first > last THEN Table(<<>>, <<>>)
    ELSE Bind(_load_climate_year(last), LAMBDA head :
           IF IsExc(head) THEN head
           ELSE Bind(ConcatYearsDescending(first, last - 1), LAMBDA rest :
                   IF IsExc(rest) THEN rest
                   ELSE Table(head.cols, head.rows \o rest.rows)))

\* pd.concat of the tables of the years first..last, or the first exception
RECURSIVE ConcatYears(_, _)
ConcatYears(first, last) ==
    IF first > last THEN Table(<<>>, <<>>)
    ELSE Bind(_load_climate_year(first), LAMBDA head :
           IF IsExc(head) THEN head
           ELSE Bind(ConcatYears(first + 1, last), LAMBDA rest :
                   IF IsExc(rest) THEN rest
                   ELSE Table(head.cols, head.rows \o rest.rows)))

\* the table build_composite_climate_df hands to to_csv, or the exception
composite_climate_df == ConcatYears(FirstYear, FirstYear + NumYears - 1)

-----------------------------------------------------------------------------
(* The directories *)

CompiledUnits == DATA_COLUMNS \X BatchYears \X Months
InterpolatedUnits == INTERPOLATION_COLUMNS \X BatchYears \X Months
AnnualizedUnits == INTERPOLATION_COLUMNS \X BatchYears

Lattice == Range(FullXi)

\* A compiled file, kept as its interpolant (see griddata).
CompiledFile(f) == [interp |-> f]

\* The observations of the model: 10 degrees Celsius, 5 mm, 7.5 degrees.
ObservedValue(var) ==
    IF var = "TAVG" THEN 200 ELSE IF var = "PRCP" THEN 100 ELSE 150

\* The compiled files a unit may hold: any interpolant that is the observed
\* value or NaN at each lattice point.
CompiledChoices(var) ==
    {CompiledFile(f) : f \in [Lattice -> {NaN, Num(ObservedValue(var))}]}

\* Monthly values with a full mantissa (2457.70 mm and 2457.75 mm).
WetValues == {49154, 49155}

\* The monthly files of a base variable: what interpolation writes for an
\* interpolant that is NaN or a wet value at <<0, 0>>, NaN or the lower wet
\* value at <<1, 0>>.
BaseMonthChoices(var) ==
    {InterpolatedFrame(var, CompiledFile(f), "linear", FullXi) :
        f \in {g \in [Lattice -> {NaN} \cup {Num(w) : w \in WetValues}] :
                  g[<<1, 0>>] # Num(49155)}}

\* The monthly files of HUMID: what lines 76-80 build from a TAVG frame
\* (10 degrees or NaN at each point) and a full PRCP frame (5 mm).
HumidMonthChoices ==
    {HumidFrame(InterpolatedFrame("TAVG", CompiledFile(f), "linear", FullXi),
                InterpolatedFrame("PRCP",
                                  CompiledFile([p \in Lattice |-> Num(100)]),
                                  "linear", FullXi)) :
        f \in [Lattice -> {NaN, Num(200)}]}

-----------------------------------------------------------------------------
(* Annual grids and country boundaries of the aggregation runs *)

\* min, mean, max (in degrees or mm) of the annual row at a point; the row
\* at <<5, 5>> is the (1, 2, 3) of the specification's example.
AnnualTriple(p) ==
    IF p = <<5, 5>> THEN <<1, 2, 3>>
    ELSE IF p = <<-1, -1>> THEN <<2, 4, 6>>
    ELSE IF p = <<11, 5>> THEN <<3, 5, 8>>
    ELSE IF p = <<12, 5>> THEN <<100, 200, 300>>
    ELSE IF p = <<5, 12>> THEN <<50, 60, 70>>
    ELSE <<7, 8, 9>>

\* Each variable has values of its own: the triple of the point shifted by
\* this much (TAVG keeps the triple).
Offset(var) ==
    IF var = "TMIN" THEN 0 - 10
    ELSE IF var = "TAVG" THEN 0
    ELSE IF var = "TMAX" THEN 10
    ELSE IF var = "PRCP" THEN 20
    ELSE IF var = "HUMID" THEN 30
    ELSE 0 - 20

\* An annual file as annualize_NOAA writes it (columns min, max, mean), with
\* rows at the points of the sequence pts.
AnnualFile(var, pts) ==
    Frame(<<"min", "max", "mean">>,
          [i \in 1..Len(pts) |->
              LET t == AnnualTriple(pts[i])
                  off == Offset(var)
              IN  [p |-> pts[i],
                   v |-> <<ToUnits(t[1] + off), ToUnits(t[3] + off),
                           ToUnits(t[2] + off)>>]])

\* The coverage of one year: the points of the base variables' annual files
\* and of the derived variables' (<<>>: the derived files are missing).
FullCoverage ==
    << <<-1, -1>>, <<5, 5>>, <<5, 12>>, <<11, 5>>, <<12, 5>>, <<50, 50>> >>

CoverageChoices ==
    { [base |-> FullCoverage, derived |-> << <<5, 5>> >>],
      [base |-> << <<5, 5>>, <<50, 50>> >>, derived |-> << <<12, 5>>, <<50, 50>> >>],
      [base |-> << <<50, 50>> >>, derived |-> << <<5, 5>> >>],
      [base |-> << <<5, 5>>, <<50, 50>> >>, derived |-> <<>>] }

Square == [NAME |-> "Square", points |-> << <<0, 0>>, <<0, 10>>, <<10, 10>>, <<10, 0>> >>]
Triangle == [NAME |-> "Triangle", points |-> << <<49, 49>>, <<51, 49>>, <<50, 51>> >>]
Remote == [NAME |-> "Remote", points |-> << <<100, 0>>, <<101, 1>>, <<100, 1>> >>]
\* a second boundary record of the name Square (an exclave)
Exclave == [NAME |-> "Square", points |-> << <<12, 4>>, <<13, 5>> >>]

ShapeChoices ==
    { <<Square, Triangle>>, <<Remote, Square>>, <<Square, Triangle, Exclave>> }

-----------------------------------------------------------------------------
(* utils/ascii_reader.py *)

(* An ASCII grid file is [fmt, tokens]: fmt the six values of its header   *)
(* (ASCIIFormat), tokens the integers after the header; values are floats  *)
(* in units of 0.05.  A filtered CSV file is [label, rows], rows a         *)
(* sequence of <<LONGITUDE, LATITUDE, value>>.                              *)

\* label.lower() of the labels in use
Lower(label) ==
    CASE label \in {"PRCP", "prcp"} -> "prcp"
      [] label \in {"TMIN", "tmin"} -> "tmin"
      [] label \in {"TAVG", "tavg"} -> "tavg"
      [] label \in {"TMAX", "tmax"} -> "tmax"
      [] label = "value" -> "value"

DIMENSION_LOOKUP ==
    [prcp |-> "mm", tmin |-> "Celsius", tavg |-> "Celsius", tmax |-> "Celsius",
     value |-> "unknown"]

\* 1.0 and 0.1
SCALE_LOOKUP ==
    [prcp |-> UnitsPerOne, tmin |-> 2, tavg |-> 2, tmax |-> 2, value |-> UnitsPerOne]

\* Fault variant of skip_this_ndx: no column and no row is skipped.
skip_this_ndx_never(xn, yn, xskip, yskip) == FALSE

skip_this_ndx(xn, yn, xskip, yskip) ==
    (xn % (xskip + 1) > 0) \/ (yn % (yskip + 1) > 0)

skip_this_pos(xpos, ypos, xmin, xmax, ymin, ymax) ==
    (xpos < xmin) \/ (xpos > xmax) \/ (ypos < ymin) \/ (ypos > ymax)

\* Fault variant of check_bounds: the limits themselves are refused.
check_bounds_exclusive(value, dimension) ==
    \/ dimension = "Celsius" /\ ToUnits(0 - 95) < value /\ value < ToUnits(65)
    \/ dimension = "mm" /\ 0 < value /\ value < ToUnits(30000)

\* Fault variant of check_bounds: a value of another dimension is accepted.
check_bounds_any_dimension(value, dimension) ==
    \/ dimension = "Celsius" /\ ToUnits(0 - 95) <= value /\ value <= ToUnits(65)
    \/ dimension = "mm" /\ 0 <= value /\ value <= ToUnits(30000)
    \/ dimension \notin {"Celsius", "mm"}

\* TRUE: check_bounds returns True; FALSE: it raises DataOutOfBoundsError
check_bounds(value, dimension) ==
    \/ dimension = "Celsius" /\ ToUnits(0 - 95) <= value /\ value <= ToUnits(65)
    \/ dimension = "mm" /\ 0 <= value /\ value <= ToUnits(30000)

\* Fault variant of Counters: the column counter wraps one token late.
RECURSIVE CountersWrapLate(_, _)
CountersWrapLate(ncols, k) ==
    IF k = 1 THEN <<0, 0>>
    ELSE LET before == CountersWrapLate(ncols, k - 1)
         IN  IF before[1] + 1 = ncols + 1
             THEN <<0, before[2] + 1>>
             ELSE <<before[1] + 1, before[2]>>

\* <<xn, yn>> when the loop of asc_to_array processes its k-th token (k from
\* 1): lines 134-135 before the first, lines 158-163 after every token
RECURSIVE Counters(_, _)
Counters(ncols, k) ==
    IF k = 1 THEN <<0, 0>>
    ELSE LET before == Counters(ncols, k - 1)
         IN  IF before[1] + 1 = ncols
             THEN <<0, before[2] + 1>>
             ELSE <<before[1] + 1, before[2]>>

\* lines 139-163 without check_bounds: the tuples (xpos, ypos, val) of the
\* tokens that are not null and not skipped, in the order of the file
retained(asc, xskip, yskip, xmin, xmax, ymin, ymax, scale) ==
    LET fmt == asc.fmt
        xn(k) == Counters(fmt.ncols, k)[1]
        yn(k) == Counters(fmt.ncols, k)[2]
        xpos(k) == fmt.xllcorner + xn(k) * fmt.cellsize
        ypos(k) == fmt.yllcorner + (fmt.nrows - yn(k)) * fmt.cellsize
        kept == SelectSeq([k \in 1..Len(asc.tokens) |-> k],
                          LAMBDA k :
                             /\ asc.tokens[k] # fmt.null
                             /\ ~ (skip_this_ndx(xn(k), yn(k), xskip, yskip)
                                   \/ skip_this_pos(xpos(k), ypos(k),
                                                    xmin, xmax, ymin, ymax)))
    IN  [i \in 1..Len(kept) |->
            <<xpos(kept[i]), ypos(kept[i]), fmul(ToUnits(asc.tokens[kept[i]]), scale)>>]

\* [data_array], or the exception check_bounds raised at the first tuple
\* whose value it refuses
asc_to_array(asc, xskip, yskip, xmin, xmax, ymin, ymax, dimension, scale) ==
    LET data_array == retained(asc, xskip, yskip, xmin, xmax, ymin, ymax, scale)
    IN  IF \E i \in 1..Len(data_array) : ~ check_bounds(data_array[i][3], dimension)
        THEN Exc("DataOutOfBoundsError")
        ELSE [data_array |-> data_array]

\* asc_to_array of the earlier utils/ascii_reader.py: no scale, no
\* check_bounds, rows counted up from yllcorner, and skip_this_pos called
\* with -180, 180, -90, 90 whatever the bounds of the caller
asc_to_array_old(asc, xskip, yskip, xmin, xmax, ymin, ymax) ==
    LET fmt == asc.fmt
        xn(k) == Counters(fmt.ncols, k)[1]
        yn(k) == Counters(fmt.ncols, k)[2]
        xpos(k) == fmt.xllcorner + xn(k) * fmt.cellsize
        ypos(k) == fmt.yllcorner + yn(k) * fmt.cellsize
        kept == SelectSeq([k \in 1..Len(asc.tokens) |-> k],
                          LAMBDA k :
                             /\ asc.tokens[k] # fmt.null
                             /\ ~ (skip_this_ndx(xn(k), yn(k), xskip, yskip)
                                   \/ skip_this_pos(xpos(k), ypos(k),
                                                    0 - 180, 180, 0 - 90, 90)))
    IN  [data_array |->
            [i \in 1..Len(kept) |->
                <<xpos(kept[i]), ypos(kept[i]), ToUnits(asc.tokens[kept[i]])>>]]

\* the output file after asc_to_filtered_csv(infile, outfile, ...)
asc_to_filtered_csv(asc, outfile, xskip, yskip, label, xmin, xmax, ymin, ymax) ==
    LET arr == asc_to_array(asc, xskip, yskip, xmin, xmax, ymin, ymax,
                            DIMENSION_LOOKUP[Lower(label)],
                            SCALE_LOOKUP[Lower(label)])
    IN  IF IsExc(arr) THEN outfile
        ELSE [label |-> label, rows |-> arr.data_array]

-----------------------------------------------------------------------------
(* utils/noaa_reader.py *)

ID_COLUMNS == {"STATION", "DATE", "LATITUDE", "LONGITUDE"}

\* DictReader(source_file).fieldnames: the fields of the first line, None
\* for a file without lines.  A file is the sequence of its lines.
fieldnames(source_file) ==
    IF Len(source_file) = 0 THEN [none |-> TRUE]
    ELSE [list |-> Head(source_file)]

\* the set filtered_data_fields, or the exception raised
read_source_header(source_file, id_fields, data_fields) ==
    LET source_fields == fieldnames(source_file)
    IN  IF "none" \in DOMAIN source_fields THEN Exc("TypeError")
        ELSE LET missing_id_fields == id_fields \ Range(source_fields.list)
             IN  IF missing_id_fields # {} THEN Exc("ValueError")
                 ELSE [filtered_data_fields |->
                          Range(source_fields.list) \cap data_fields]

-----------------------------------------------------------------------------
(* Initial states *)

NothingCompiled == [u \in CompiledUnits |-> Missing]
NothingInterpolated == [u \in InterpolatedUnits |-> Missing]
NothingAnnualized == [u \in AnnualizedUnits |-> Missing]

\* no file is open
NoFile == [chars |-> <<>>, pos |-> 0]

\* no file of the NOAA readers is there and none is open
NoNoaa ==
    /\ trimmed = Missing
    /\ grouped = Missing
    /\ token_fp = NoFile
    /\ tokens = <<>>

\* no batch function is running or has run
NoBatch ==
    /\ stage = "idle"
    /\ caller = "none"
    /\ unit = <<>>
    /\ attempted = {}
    /\ reported = {}
    /\ written = {}

\* Interpolation runs: compiled TAVG and PRCP files of the first month may
\* exist; nothing is interpolated yet.
InitInterp ==
    /\ dupSuffixRaises = FALSE
    /\ method \in Kinds
    /\ \E ft \in CompiledChoices("TAVG") \cup {Missing},
          fp \in CompiledChoices("PRCP") \cup {Missing} :
          compiled = [u \in CompiledUnits |->
                         IF u = <<"TAVG", FirstYear, 1>> THEN ft
                         ELSE IF u = <<"PRCP", FirstYear, 1>> THEN fp
                         ELSE Missing]
    /\ interpolated = NothingInterpolated
    /\ annualized = NothingAnnualized
    /\ shapes = <<>>
    /\ combined = Missing
    /\ ret = NoCall
    /\ NoBatch
    /\ order = <<>>
    /\ filtered = Missing
    /\ NoNoaa

\* Annualization runs: the monthly files of one variable of the first year
\* may exist.
InitAnnual ==
    /\ dupSuffixRaises \in BOOLEAN
    /\ method = "linear"
    /\ compiled = NothingCompiled
    /\ \E var \in {"PRCP", "HUMID"} :
       \E files \in [Months -> (IF var = "PRCP" THEN BaseMonthChoices(var)
                                ELSE HumidMonthChoices) \cup {Missing}] :
          interpolated = [u \in InterpolatedUnits |->
                             IF u[1] = var /\ u[2] = FirstYear THEN files[u[3]]
                             ELSE Missing]
    /\ annualized = NothingAnnualized
    /\ shapes = <<>>
    /\ combined = Missing
    /\ ret = NoCall
    /\ NoBatch
    /\ order = <<>>
    /\ filtered = Missing
    /\ NoNoaa

\* Aggregation runs: per year, the base variables share one coverage and the
\* derived variables another, or the derived files are missing.  The year
\* that only the batch loops cover has the files of the tracked base
\* variables.
InitCountry ==
    /\ dupSuffixRaises = FALSE
    /\ method = "linear"
    /\ compiled = NothingCompiled
    /\ interpolated = NothingInterpolated
    /\ \E c \in [Years -> CoverageChoices] :
          annualized = [u \in AnnualizedUnits |->
                           IF u[2] \notin Years
                           THEN (IF u[1] \in Range(MODEL_CLIMATE_VARS) \ {"HUMID", "HETSTRS"}
                                 THEN AnnualFile(u[1], FullCoverage)
                                 ELSE Missing)
                           ELSE IF u[1] \in {"HUMID", "HETSTRS"}
                           THEN (IF c[u[2]].derived = <<>> THEN Missing
                                 ELSE AnnualFile(u[1], c[u[2]].derived))
                           ELSE IF u[1] \in Range(MODEL_CLIMATE_VARS)
                           THEN AnnualFile(u[1], c[u[2]].base)
                           ELSE Missing]
    /\ shapes \in ShapeChoices
    /\ combined = Missing
    /\ ret = NoCall
    /\ NoBatch
    /\ order = <<>>
    /\ filtered = Missing
    /\ NoNoaa

\* The ASCII grids read: two columns and two rows from (-126, 23), the
\* first row holding the limits of both dimensions and their neighbours.
AscChoices ==
    { [fmt |-> [ncols |-> 2, nrows |-> 2, xllcorner |-> 0 - 126, yllcorner |-> 23,
                cellsize |-> 1, null |-> 0 - 9999],
       tokens |-> <<a, b, c, d>>] :
        a \in {0 - 9999, 0 - 951, 0 - 950, 650, 651, 0 - 1, 0, 30000, 30001},
        b \in {0 - 9999, 650, 651}, c \in {100}, d \in {100} }

\* The grids asc_to_array is called on: up to MaxCols columns and two rows
\* from (-126, 23), every token 20 but for at most one null.
GridChoices ==
    UNION { { [fmt |-> [ncols |-> ncols, nrows |-> nrows, xllcorner |-> 0 - 126,
                        yllcorner |-> 23, cellsize |-> 1, null |-> 0 - 9999],
               tokens |-> t] :
                t \in { [k \in 1..(ncols * nrows) |->
                             IF k = hole THEN 0 - 9999 ELSE 20] :
                         hole \in 0..(ncols * nrows) } } :
            ncols \in 1..MaxCols, nrows \in 1..2 }

\* the default box, and the box of filter_tree
BoxChoices == { <<0 - 180, 180, 0 - 90, 90>>, <<0 - 125, 0 - 65, 24, 50>> }

\* an output file left by an earlier run
EarlierCsv == [label |-> "TAVG", rows |-> << <<0 - 125, 25, ToUnits(20)>> >>]

\* The raw CSV files read: without bytes, a blank line, a full header, one
\* without STATION, one with part of the data fields.
SourceChoices ==
    { <<>>,
      << <<>> >>,
      << <<"STATION", "DATE", "LATITUDE", "LONGITUDE", "ELEVATION", "NAME",
           "EMNT", "PRCP", "TAVG", "EMXT", "TMAX", "TMIN", "CDSD">> >>,
      << <<"DATE", "LATITUDE", "LONGITUDE", "NAME", "PRCP", "TAVG">> >>,
      << <<"STATION", "DATE", "LATITUDE", "LONGITUDE", "PRCP", "CDSD">> >> }

InitReaders ==
    /\ dupSuffixRaises = FALSE
    /\ method = "linear"
    /\ compiled = NothingCompiled
    /\ interpolated = NothingInterpolated
    /\ annualized = NothingAnnualized
    /\ shapes = <<>>
    /\ combined = Missing
    /\ ret = NoCall
    /\ NoBatch
    /\ order = <<>>
    /\ filtered \in {Missing, EarlierCsv}
    /\ NoNoaa

\* The orders in which a process may iterate the set INTERPOLATION_COLUMNS
\* (the order of a set of strings follows their hashes, which Python draws
\* anew for every process): a derived variable first, in the middle, last.
OrderChoices ==
    { <<"HUMID", "TAVG", "PRCP", "EMNT", "HETSTRS", "TMAX", "TMIN", "EMXT">>,
      <<"PRCP", "TMAX", "HETSTRS", "TAVG", "EMNT", "HUMID", "EMXT", "TMIN">>,
      <<"TAVG", "PRCP", "TMAX", "TMIN", "EMNT", "EMXT", "HUMID", "HETSTRS">> }

\* A directory with a file at the units of <present> and nothing elsewhere.
Directory(units, present, File(_)) ==
    [u \in units |-> IF u \in present THEN File(u) ELSE Missing]

\* A compiled file whose interpolant is defined on the whole lattice; the
\* observation is a degree (a millimetre) more each month.
FullCompiledFile(u) ==
    CompiledFile([p \in Lattice |-> Num(ObservedValue(u[1]) + UnitsPerOne * u[3])])

\* The compiled directories of the batch runs.
BatchCompiledChoices ==
    { Directory(CompiledUnits, present, FullCompiledFile) :
        present \in { {},
                      {<<"TAVG", FirstYear, 1>>, <<"PRCP", FirstYear, 1>>},
                      {<<"TAVG", FirstYear, 1>>}
                         \cup {<<"TMAX", FirstYear, month>> : month \in Months},
                      {<<var, FirstYear, month>> :
                          var \in {"TAVG", "PRCP"}, month \in Months} } }

\* A monthly file left by an earlier run: a row at <<0, 0>> only.
EarlierMonthFile(u) ==
    InterpolatedFrame(u[1],
                      CompiledFile([p \in Lattice |->
                                      IF p = <<0, 0>>
                                      THEN Num(ObservedValue(u[1]) + UnitsPerOne * u[3])
                                      ELSE NaN]),
                      "linear", FullXi)

\* The interpolated directories of the batch runs: files of base variables,
\* the only ones a run of the interpolation stage can leave.
BatchInterpolatedChoices ==
    { Directory(InterpolatedUnits, present, EarlierMonthFile) :
        present \in { {},
                      {<<"TAVG", FirstYear, 1>>},
                      {<<"PRCP", FirstYear, month>> : month \in Months},
                      {<<"PRCP", FirstYear, month>> : month \in Months \ {NumMonths}}
                         \cup {<<"TMAX", FirstYear + 1, month>> : month \in Months} } }

\* An annual file left by an earlier run.
EarlierAnnualFile(u) == AnnualFile(u[1], << <<5, 5>> >>)

BatchAnnualizedChoices ==
    { Directory(AnnualizedUnits, present, EarlierAnnualFile) :
        present \in { {}, {<<"PRCP", FirstYear>>, <<"TMAX", FirstYear + 1>>} } }

\* Batch runs: process_NOAA, interpolate_all_NOAA or annualize_all_NOAA is
\* called on directories that earlier runs may have filled.
InitBatch ==
    /\ dupSuffixRaises \in BOOLEAN
    /\ method = "linear"
    /\ compiled \in BatchCompiledChoices
    /\ interpolated \in BatchInterpolatedChoices
    /\ annualized \in BatchAnnualizedChoices
    /\ shapes = <<>>
    /\ combined = Missing
    /\ ret = NoCall
    /\ NoBatch
    /\ order \in OrderChoices
    /\ filtered = Missing
    /\ NoNoaa

-----------------------------------------------------------------------------
(* Calls.  The program is single-threaded: a call starts when the previous *)
(* one has returned, and Return hands the result to the caller.            *)

Return ==
    /\ ret # NoCall
    /\ ret' = NoCall
    /\ UNCHANGED <<compiled, interpolated, annualized, shapes, combined,
                   method, dupSuffixRaises, batchVars, filtered, noaaVars>>

CallInterpolationPoints ==
    \E var \in INTERPOLATION_COLUMNS, year \in Years, month \in Months,
       xi \in XiChoices :
        /\ ret = NoCall
        /\ ret' = [fn |-> "interpolation_NOAA_points", var |-> var,
                   year |-> year, month |-> month, kind |-> method, xi |-> xi,
                   result |-> interpolation_NOAA_points(var, year, month, method, xi)]
        /\ UNCHANGED <<compiled, interpolated, annualized, shapes, combined,
                       method, dupSuffixRaises, batchVars, filtered, noaaVars>>

CallInterpolate ==
    \E var \in INTERPOLATION_COLUMNS, year \in Years, month \in Months :
        /\ ret = NoCall
        /\ ret' = [fn |-> "interpolate_NOAA", var |-> var, year |-> year,
                   month |-> month, kind |-> method,
                   result |-> interpolate_NOAA(var, year, month, method)]
        /\ UNCHANGED <<compiled, interpolated, annualized, shapes, combined,
                       method, dupSuffixRaises, batchVars, filtered, noaaVars>>

CallAnnualize ==
    \E var \in INTERPOLATION_COLUMNS, year \in Years :
        /\ ret = NoCall
        /\ ret' = [fn |-> "annualize_NOAA", var |-> var, year |-> year,
                   result |-> annualize_NOAA(var, year)]
        /\ UNCHANGED <<compiled, interpolated, annualized, shapes, combined,
                       method, dupSuffixRaises, batchVars, filtered, noaaVars>>

CallSpatialAverage ==
    \E var \in Range(MODEL_CLIMATE_VARS), year \in Years, n \in 1..Len(shapes) :
        /\ ret = NoCall
        /\ ~ IsMissing(annualized[<<var, year>>])
        /\ ret' = [fn |-> "_spatial_climate_average", var |-> var,
                   year |-> year, n |-> n,
                   result |-> _spatial_climate_average(annualized[<<var, year>>],
                                                       shapes[n].points)]
        /\ UNCHANGED <<compiled, interpolated, annualized, shapes, combined,
                       method, dupSuffixRaises, batchVars, filtered, noaaVars>>

CallLoadCountryClimate ==
    \E var \in Range(MODEL_CLIMATE_VARS), year \in Years :
        /\ ret = NoCall
        /\ ret' = [fn |-> "_load_country_climate", var |-> var, year |-> year,
                   result |-> _load_country_climate(var, year)]
        /\ UNCHANGED <<compiled, interpolated, annualized, shapes, combined,
                       method, dupSuffixRaises, batchVars, filtered, noaaVars>>

\* the parameters of _load_country_climate
_load_country_climate_params == {"var", "year"}

\* _load_country_climate called with a keyword that selects how a country's
\* record is taken
CallLoadCountryClimateMode ==
    \E var \in Range(MODEL_CLIMATE_VARS), year \in Years, mode \in {"center", "box"} :
        /\ ret = NoCall
        /\ ret' = [fn |-> "_load_country_climate", var |-> var, year |-> year,
                   mode |-> mode,
                   result |-> CallKw(_load_country_climate_params,
                                     {"var", "year", "mode"},
                                     _load_country_climate(var, year))]
        /\ UNCHANGED <<compiled, interpolated, annualized, shapes, combined,
                       method, dupSuffixRaises, batchVars, filtered, noaaVars>>

CallGetCountryCenters ==
    /\ ret = NoCall
    /\ ret' = [fn |-> "_get_country_centers", result |-> _get_country_centers]
    /\ UNCHANGED <<compiled, interpolated, annualized, shapes, combined,
                   method, dupSuffixRaises, batchVars, filtered, noaaVars>>

CallLoadClimateYear ==
    \E year \in Years :
        /\ ret = NoCall
        /\ ret' = [fn |-> "_load_climate_year", year |-> year,
                   result |-> _load_climate_year(year)]
        /\ UNCHANGED <<compiled, interpolated, annualized, shapes, combined,
                       method, dupSuffixRaises, batchVars, filtered, noaaVars>>

\* build_composite_climate_df: to_csv runs only when no year raised
build_composite_climate_df ==
    /\ ret = NoCall
    /\ \E country_climate \in {composite_climate_df} :
        /\ combined' = IF IsExc(country_climate) THEN combined ELSE country_climate
        /\ ret' = [fn |-> "build_composite_climate_df",
                   result |-> IF IsExc(country_climate) THEN country_climate
                              ELSE [none |-> TRUE]]
    /\ UNCHANGED <<compiled, interpolated, annualized, shapes, method,
                   dupSuffixRaises, batchVars, filtered, noaaVars>>

-----------------------------------------------------------------------------
(* Batch runs: interpolate_all_NOAA, annualize_all_NOAA, process_NOAA.     *)
(* One action is one pass through the body of the innermost loop.          *)

\* the value of a function that returns nothing
None == [none |-> TRUE]

\* Fault variant of interpolated_path: the month is left out of the name.
interpolated_path_no_month(var, year, month) == <<var, year, 1>>

\* the file of a unit: f'{var}{year}-{month}.csv', f'{var}{year}.csv'
interpolated_path(var, year, month) == <<var, year, month>>

annualized_path(var, year) == <<var, year>>

\* Fault variant of Caught: the loop body has no try/except.
CaughtNothing(result) == FALSE

\* except FileNotFoundError as exc: the one exception the loops handle
Caught(result) == result = Exc("FileNotFoundError")

\* the last year of range(1995, 2022)
LastBatchYear == FirstYear + NumYears

\* the loop variables <<k, year, month>> (var = order[k]) after a pass
NextMonthUnit(u) ==
    IF u[3] < NumMonths THEN <<u[1], u[2], u[3] + 1>>
    ELSE IF u[2] < LastBatchYear THEN <<u[1], u[2] + 1, 1>>
    ELSE <<u[1] + 1, FirstYear, 1>>

\* the loop variables <<k, year>> (var = order[k]) after a pass
NextYearUnit(u) ==
    IF u[2] < LastBatchYear THEN <<u[1], u[2] + 1>>
    ELSE <<u[1] + 1, FirstYear>>

\* the outermost loop has no variable left
LoopDone(u) == u[1] > Len(order)

\* A batch function is called: its loop starts at the first unit.
StartBatch(fn, loop, first) ==
    /\ stage = "idle"
    /\ ret = NoCall
    /\ stage' = loop
    /\ caller' = fn
    /\ unit' = first
    /\ attempted' = {}
    /\ reported' = {}
    /\ written' = {}
    /\ UNCHANGED <<compiled, interpolated, annualized, shapes, combined, method,
                   dupSuffixRaises, ret, order, filtered, noaaVars>>

process_NOAA == StartBatch("process_NOAA", "interpolate", <<1, FirstYear, 1>>)

interpolate_all_NOAA ==
    StartBatch("interpolate_all_NOAA", "interpolate", <<1, FirstYear, 1>>)

annualize_all_NOAA == StartBatch("annualize_all_NOAA", "annualize", <<1, FirstYear>>)

\* An exception no except clause handles leaves the loops and the function
\* that was called.
Raise(exc) ==
    /\ stage' = "idle"
    /\ caller' = "none"
    /\ ret' = [fn |-> caller, result |-> exc]
    /\ UNCHANGED unit

\* The called function returns.
ReturnNone(next) ==
    /\ stage' = "idle"
    /\ caller' = "none"
    /\ ret' = [fn |-> caller, result |-> None]
    /\ unit' = next

\* The end of a pass of interpolate_all_NOAA: the next unit, or the end of
\* the function; process_NOAA then calls annualize_all_NOAA.
ContinueInterpolation(next) ==
    IF ~ LoopDone(next)
    THEN unit' = next /\ UNCHANGED <<stage, caller, ret>>
    ELSE IF caller = "process_NOAA"
    THEN stage' = "annualize" /\ unit' = <<1, FirstYear>> /\ UNCHANGED <<caller, ret>>
    ELSE ReturnNone(next)

\* The end of a pass of annualize_all_NOAA.
ContinueAnnualization(next) ==
    IF ~ LoopDone(next)
    THEN unit' = next /\ UNCHANGED <<stage, caller, ret>>
    ELSE ReturnNone(next)

\* interpolate_all_NOAA, lines 152-170, for the unit of the loop variables
InterpolateUnit ==
    /\ stage = "interpolate"
    /\ LET var == order[unit[1]]
           year == unit[2]
           month == unit[3]
       IN  \E interpolated_df \in {interpolate_NOAA(var, year, month, method)} :
              /\ attempted' = attempted \cup {<<var, year, month>>}
              /\ IF Caught(interpolated_df)
                 THEN /\ reported' = reported \cup {<<var, year, month>>}
                      /\ UNCHANGED <<interpolated, written>>
                      /\ ContinueInterpolation(NextMonthUnit(unit))
                 ELSE IF IsExc(interpolated_df)
                 THEN /\ UNCHANGED <<interpolated, reported, written>>
                      /\ Raise(interpolated_df)
                 ELSE /\ interpolated' =
                           [interpolated EXCEPT
                              ![interpolated_path(var, year, month)] = interpolated_df]
                      /\ written' = written \cup {interpolated_path(var, year, month)}
                      /\ UNCHANGED reported
                      /\ ContinueInterpolation(NextMonthUnit(unit))
    /\ UNCHANGED <<compiled, annualized, shapes, combined, method,
                   dupSuffixRaises, order, filtered, noaaVars>>

\* Fault variant of AnnualizeUnit: the except clause removes the annual file
\* of the pair.
AnnualizeUnitRemovingStale ==
    /\ stage = "annualize"
    /\ LET var == order[unit[1]]
           year == unit[2]
       IN  \E annual_df \in {annualize_NOAA(var, year)} :
              /\ attempted' = attempted \cup {<<var, year>>}
              /\ IF Caught(annual_df)
                 THEN /\ reported' = reported \cup {<<var, year>>}
                      /\ annualized' =
                           [annualized EXCEPT ![annualized_path(var, year)] = Missing]
                      /\ UNCHANGED written
                      /\ ContinueAnnualization(NextYearUnit(unit))
                 ELSE IF IsExc(annual_df)
                 THEN /\ UNCHANGED <<annualized, reported, written>>
                      /\ Raise(annual_df)
                 ELSE /\ annualized' =
                           [annualized EXCEPT
                              ![annualized_path(var, year)] = annual_df]
                      /\ written' = written \cup {annualized_path(var, year)}
                      /\ UNCHANGED reported
                      /\ ContinueAnnualization(NextYearUnit(unit))
    /\ UNCHANGED <<compiled, interpolated, shapes, combined, method,
                   dupSuffixRaises, order, filtered, noaaVars>>

\* annualize_all_NOAA, lines 109-122, for the unit of the loop variables
AnnualizeUnit ==
    /\ stage = "annualize"
    /\ LET var == order[unit[1]]
           year == unit[2]
       IN  \E annual_df \in {annualize_NOAA(var, year)} :
              /\ attempted' = attempted \cup {<<var, year>>}
              /\ IF Caught(annual_df)
                 THEN /\ reported' = reported \cup {<<var, year>>}
                      /\ UNCHANGED <<annualized, written>>
                      /\ ContinueAnnualization(NextYearUnit(unit))
                 ELSE IF IsExc(annual_df)
                 THEN /\ UNCHANGED <<annualized, reported, written>>
                      /\ Raise(annual_df)
                 ELSE /\ annualized' =
                           [annualized EXCEPT
                              ![annualized_path(var, year)] = annual_df]
                      /\ written' = written \cup {annualized_path(var, year)}
                      /\ UNCHANGED reported
                      /\ ContinueAnnualization(NextYearUnit(unit))
    /\ UNCHANGED <<compiled, interpolated, shapes, combined, method,
                   dupSuffixRaises, order, filtered, noaaVars>>

-----------------------------------------------------------------------------
(* Specifications *)

NextInterp == CallInterpolationPoints \/ CallInterpolate \/ Return
SpecInterp == InitInterp /\ [][NextInterp]_vars

NextAnnual == CallAnnualize \/ Return
SpecAnnual == InitAnnual /\ [][NextAnnual]_vars

NextCountry ==
    \/ CallSpatialAverage
    \/ CallLoadCountryClimate
    \/ CallLoadCountryClimateMode
    \/ CallGetCountryCenters
    \/ CallLoadClimateYear
    \/ build_composite_climate_df
    \/ Return
SpecCountry == InitCountry /\ [][NextCountry]_vars

CallAscToFilteredCsv ==
    \E asc \in AscChoices, xskip \in {0, 1}, yskip \in {0, 1},
       label \in {"PRCP", "TAVG", "value"}, box \in BoxChoices :
        /\ ret = NoCall
        /\ filtered' = asc_to_filtered_csv(asc, filtered, xskip, yskip, label,
                                           box[1], box[2], box[3], box[4])
        /\ ret' = [fn |-> "asc_to_filtered_csv", infile |-> asc, xskip |-> xskip,
                   yskip |-> yskip, label |-> label, box |-> box, result |-> None]
        /\ UNCHANGED <<compiled, interpolated, annualized, shapes, combined,
                       method, dupSuffixRaises, batchVars, noaaVars>>

\* asc_to_array of utils/ascii_reader.py in the package ("new", with the
\* default dimension and scale) and of the earlier copy ("old")
CallAscToArray ==
    \E asc \in GridChoices, xskip \in 0..2, yskip \in 0..1, box \in BoxChoices,
       version \in {"new", "old"} :
        /\ ret = NoCall
        /\ ret' = [fn |-> "asc_to_array", version |-> version, infile |-> asc,
                   xskip |-> xskip, yskip |-> yskip, box |-> box,
                   result |->
                      IF version = "new"
                      THEN asc_to_array(asc, xskip, yskip, box[1], box[2], box[3],
                                        box[4], "Celsius", UnitsPerOne)
                      ELSE asc_to_array_old(asc, xskip, yskip, box[1], box[2],
                                            box[3], box[4])]
        /\ UNCHANGED <<compiled, interpolated, annualized, shapes, combined,
                       method, dupSuffixRaises, batchVars, filtered, noaaVars>>

CallReadSourceHeader ==
    \E source_file \in SourceChoices,
       id_fields \in {ID_COLUMNS, ID_COLUMNS \cup {"BLUE"}},
       data_fields \in {DATA_COLUMNS, {"EMNT", "PRCP", "TMIN", "TMAX"}} :
        /\ ret = NoCall
        /\ ret' = [fn |-> "read_source_header", source_file |-> source_file,
                   id_fields |-> id_fields, data_fields |-> data_fields,
                   result |-> read_source_header(source_file, id_fields, data_fields)]
        /\ UNCHANGED <<compiled, interpolated, annualized, shapes, combined,
                       method, dupSuffixRaises, batchVars, filtered, noaaVars>>

NextReaders ==
    \/ CallAscToFilteredCsv
    \/ CallAscToArray
    \/ CallReadSourceHeader
    \/ Return
SpecReaders == InitReaders /\ [][NextReaders]_vars

NextBatch ==
    \/ process_NOAA
    \/ interpolate_all_NOAA
    \/ annualize_all_NOAA
    \/ InterpolateUnit
    \/ AnnualizeUnit
    \/ Return
SpecBatch == InitBatch /\ [][NextBatch]_vars

-----------------------------------------------------------------------------
(* read_token of utils/ascii_reader.py: a text file is the sequence of its
   characters and the number of characters read so far; a token is a
   sequence of characters, the empty string the empty sequence. *)

\* string.whitespace: space, tab, newline, return, vertical tab, form feed
whitespace == {" ", "\t", "\n", "\r", "VT", "\f"}

\* fp.read(1) repeated while the character read is whitespace (spaces =
\* TRUE, the first loop) or is not (spaces = FALSE, the second loop): the
\* index of the first character from n on that ends the loop, Len + 1 when
\* read(1) returns '' at the end of the file
RECURSIVE ReadWhile(_, _, _)
ReadWhile(chars, n, spaces) ==
    IF n <= Len(chars) /\ ((chars[n] \in whitespace) <=> spaces)
    THEN ReadWhile(chars, n + 1, spaces)
    ELSE n

\* Fault variant of read_token: leading whitespace is not skipped.
read_token_no_skip(fp) ==
    LET start == fp.pos + 1
        stop == ReadWhile(fp.chars, start, FALSE)
    IN  [token |-> SubSeq(fp.chars, start, stop - 1),
         pos |-> IF stop <= Len(fp.chars) THEN stop ELSE Len(fp.chars)]

\* read_token(fp): the token returned and the position of fp afterwards.
\* The character that ends the token has been read as well.
read_token(fp) ==
    LET start == ReadWhile(fp.chars, fp.pos + 1, TRUE)
        stop == ReadWhile(fp.chars, start, FALSE)
    IN  [token |-> SubSeq(fp.chars, start, stop - 1),
         pos |-> IF stop <= Len(fp.chars) THEN stop ELSE Len(fp.chars)]

\* The text files read: every string of at most MaxLen characters over two
\* letters, the space and the newline, opened at its start.
CharChoices == {"a", "b", " ", "\n"}
InitToken ==
    /\ dupSuffixRaises = FALSE
    /\ method = "linear"
    /\ compiled = NothingCompiled
    /\ interpolated = NothingInterpolated
    /\ annualized = NothingAnnualized
    /\ shapes = <<>>
    /\ combined = Missing
    /\ ret = NoCall
    /\ NoBatch
    /\ order = <<>>
    /\ filtered = Missing
    /\ trimmed = Missing
    /\ grouped = Missing
    /\ \E n \in 0..MaxLen :
          \E chars \in [1..n -> CharChoices] :
             token_fp = [chars |-> chars, pos |-> 0]
    /\ tokens = <<>>

\* one more call of read_token(fp); tokens records what the calls returned
CallReadToken ==
    /\ Len(tokens) < MaxCalls
    /\ tokens' = Append(tokens, read_token(token_fp).token)
    /\ token_fp' = [token_fp EXCEPT !.pos = read_token(token_fp).pos]
    /\ UNCHANGED <<compiled, interpolated, annualized, shapes, combined,
                   method, dupSuffixRaises, ret, batchVars, filtered,
                   trimmed, grouped>>

NextToken == CallReadToken
SpecToken == InitToken /\ [][NextToken]_vars

-----------------------------------------------------------------------------
(* trim_file and _make_one_group of utils/noaa_reader.py.  A source file is
   the sequence of its lines, the header first, each line the sequence of
   its values; a file written through a DictWriter is its fieldnames and
   the rows written, each row a function from the fieldnames. *)

\* the position of x in seq
PositionOf(seq, x) == CHOOSE i \in 1..Len(seq) : seq[i] = x

\* the rows a DictReader yields after its header
DictRows(source_file) ==
    [i \in 1..(Len(source_file) - 1) |->
        [f \in Range(Head(source_file)) |->
            source_file[i + 1][PositionOf(Head(source_file), f)]]]

\* The DATE strings of the files and the calls, in the order of Python's
\* comparison of strings ('1995-02' < '1995-1' since '0' < '1').
DateStrings == <<"", "1994-12", "1995-01", "1995-02", "1995-1">>

\* a >= b for two strings of DateStrings
StrGe(a, b) == PositionOf(DateStrings, a) >= PositionOf(DateStrings, b)

\* Fault variant of _to_be_written: the date of the row is not looked at.
_to_be_written_any_date(var, source_row, date_str) ==
    IF var \notin DOMAIN source_row THEN FALSE
    ELSE source_row[var] # ""

_to_be_written(var, source_row, date_str) ==
    IF var \notin DOMAIN source_row THEN FALSE
    ELSE IF source_row[var] = "" THEN FALSE
    ELSE source_row["DATE"] = date_str

\* _trim_open_csv: <<written, avail_data>> or the exception raised, and the
\* file at output_name afterwards (output is the file there before).  The
\* columns of the output follow the iteration of the set all_fields; the
\* model keeps the set.
_trim_open_csv(source_file, output, min_date, id_fields, data_fields) ==
    LET header == read_source_header(source_file, id_fields, data_fields)
    IN  IF IsExc(header) THEN [result |-> header, output |-> output]
        ELSE LET avail_data == header.filtered_data_fields
                 all_fields == id_fields \cup avail_data
                 source == DictRows(source_file)
                 kept == SelectSeq(source,
                                   LAMBDA source_row :
                                      StrGe(source_row["DATE"], min_date))
                 n_written == Len(kept)
                 dest_rows == [i \in 1..n_written |->
                                 [key \in DOMAIN kept[i] \cap all_fields |->
                                     kept[i][key]]]
             IN  IF avail_data = {}
                 THEN [result |-> [written |-> 0, columns |-> {}],
                       output |-> output]
                 ELSE [result |-> [written |-> n_written, columns |-> avail_data],
                       output |-> IF n_written = 0 THEN Missing
                                  ELSE [fieldnames |-> all_fields,
                                        rows |-> dest_rows]]

\* a collection passed for id_fields or data_fields, where None may be
Given(fields) == [set |-> fields]

trim_file(input, output, min_date, id_fields, data_fields) ==
    _trim_open_csv(input, output, min_date,
                   IF id_fields = None THEN ID_COLUMNS ELSE id_fields.set,
                   IF data_fields = None THEN DATA_COLUMNS ELSE data_fields.set)

\* f'{year}-{month:02}'
date_str(year, month) ==
    ToString(year) \o "-" \o (IF month < 10 THEN "0" ELSE "") \o ToString(month)

\* the rows _make_one_group writes: the rows of the files of source_list, in
\* the order of the list and of each file, that are to be written
RECURSIVE out_rows(_, _, _, _)
out_rows(source_dir, var, date, source_list) ==
    IF source_list = <<>> THEN <<>>
    ELSE LET reader_dict == source_dir[Head(source_list)].rows
             out_cols == <<"LONGITUDE", "LATITUDE", var>>
             used == SelectSeq(reader_dict,
                               LAMBDA source_row :
                                  _to_be_written(var, source_row, date))
         IN  [i \in 1..Len(used) |->
                 [col \in Range(out_cols) |-> used[i][col]]]
             \o out_rows(source_dir, var, date, Tail(source_list))

\* Fault variant of _make_one_group: a file without records stays.
_make_one_group_keep_empty(source_dir, dest, var, year, month, source_list) ==
    [fieldnames |-> <<"LONGITUDE", "LATITUDE", var>>,
     rows |-> out_rows(source_dir, var, date_str(year, month), source_list)]

\* _make_one_group: the file at dest_name afterwards (dest is the file
\* there before, which open(dest_name, 'w') truncates)
_make_one_group(source_dir, dest, var, year, month, source_list) ==
    LET out_cols == <<"LONGITUDE", "LATITUDE", var>>
        records == out_rows(source_dir, var, date_str(year, month), source_list)
        out_records == Len(records)
    IN  IF out_records = 0 THEN Missing
        ELSE [fieldnames |-> out_cols, rows |-> records]

\* The records of the NOAA files: one observed in January 1995, one without
\* a latitude, one without precipitation, one of the month before, one
\* whose month is not padded, one of February.
Observation(date, latitude, prcp) ==
    [STATION |-> "USW1", DATE |-> date, LATITUDE |-> latitude,
     LONGITUDE |-> "-100", NAME |-> "AIRPORT", PRCP |-> prcp, TAVG |-> "7"]
RecordChoices ==
    { Observation("1995-01", "40", "5"),
      Observation("1995-01", "", "5"),
      Observation("1995-01", "41", ""),
      Observation("1994-12", "42", "6"),
      Observation("1995-1", "43", "7"),
      Observation("1995-02", "44", "8") }

\* The headers: id fields with two data fields, id fields without a data
\* field, and a header without LATITUDE and LONGITUDE.
HeaderChoices ==
    { <<"STATION", "DATE", "LATITUDE", "LONGITUDE", "NAME", "PRCP", "TAVG">>,
      <<"STATION", "DATE", "LATITUDE", "LONGITUDE", "NAME">>,
      <<"STATION", "DATE", "NAME", "PRCP">> }

\* the file of a header and a sequence of records
CsvLines(header, records) ==
    <<header>> \o [i \in 1..Len(records) |->
                     [j \in 1..Len(header) |-> records[i][header[j]]]]

\* the files with a header of HeaderChoices and at most MaxRows records
NoaaFilesOf(header) ==
    UNION { { CsvLines(header, records) :
                 records \in [1..n -> RecordChoices] } : n \in 0..MaxRows }
NoaaSourceChoices ==
    {<<>>} \cup UNION { NoaaFilesOf(header) : header \in HeaderChoices }

\* a file left at the destination of trim_file by an earlier run
EarlierTrimmed ==
    [fieldnames |-> ID_COLUMNS \cup {"PRCP"},
     rows |-> << [STATION |-> "USW1", DATE |-> "1995-02", LATITUDE |-> "39",
                  LONGITUDE |-> "-100", PRCP |-> "9"] >>]

\* The directories _make_one_group reads: files trim_NOAA has written, one
\* of any source and one of a second station.
TrimmedOf(input) == trim_file(input, Missing, "1995-01", None, None).output
OtherStation ==
    TrimmedOf(CsvLines(<<"STATION", "DATE", "LATITUDE", "LONGITUDE", "TAVG">>,
                       << [STATION |-> "USW2", DATE |-> "1995-01",
                           LATITUDE |-> "30", LONGITUDE |-> "-90",
                           TAVG |-> "11"] >>))
SourceDirChoices ==
    { [name \in {"USW1.csv", "USW2.csv"} |->
          IF name = "USW1.csv" THEN file ELSE OtherStation] :
      file \in { TrimmedOf(input) : input \in NoaaSourceChoices } \ {Missing} }

\* a file left at the destination of _make_one_group by an earlier run
EarlierGrouped ==
    [fieldnames |-> <<"LONGITUDE", "LATITUDE", "PRCP">>,
     rows |-> << [LONGITUDE |-> "-100", LATITUDE |-> "39", PRCP |-> "9"] >>]

InitNoaa ==
    /\ dupSuffixRaises = FALSE
    /\ method = "linear"
    /\ compiled = NothingCompiled
    /\ interpolated = NothingInterpolated
    /\ annualized = NothingAnnualized
    /\ shapes = <<>>
    /\ combined = Missing
    /\ ret = NoCall
    /\ NoBatch
    /\ order = <<>>
    /\ filtered = Missing
    /\ trimmed \in {Missing, EarlierTrimmed}
    /\ grouped \in {Missing, EarlierGrouped}
    /\ token_fp = NoFile
    /\ tokens = <<>>

CallTrimFile ==
    \E input \in NoaaSourceChoices, min_date \in {"1995-01", "1995-02"},
       id_fields \in {None, Given({"STATION", "DATE"})},
       data_fields \in {None, Given({"TAVG", "TMIN"})} :
        LET done == trim_file(input, trimmed, min_date, id_fields, data_fields)
        IN  /\ ret = NoCall
            /\ ret' = [fn |-> "trim_file", input |-> input,
                       min_date |-> min_date, id_fields |-> id_fields,
                       data_fields |-> data_fields, result |-> done.result]
            /\ trimmed' = done.output
            /\ UNCHANGED <<compiled, interpolated, annualized, shapes, combined,
                           method, dupSuffixRaises, batchVars, filtered,
                           grouped, token_fp, tokens>>

CallMakeOneGroup ==
    \E source_dir \in SourceDirChoices, var \in {"PRCP", "TAVG", "TMIN"},
       year \in {FirstYear}, month \in 1..2,
       source_list \in {<<>>, <<"USW1.csv">>, <<"USW1.csv", "USW2.csv">>} :
        /\ ret = NoCall
        /\ ret' = [fn |-> "_make_one_group", source_dir |-> source_dir,
                   dest |-> grouped, var |-> var, year |-> year,
                   month |-> month, source_list |-> source_list]
        /\ grouped' = _make_one_group(source_dir, grouped, var, year, month,
                                      source_list)
        /\ UNCHANGED <<compiled, interpolated, annualized, shapes, combined,
                       method, dupSuffixRaises, batchVars, filtered,
                       trimmed, token_fp, tokens>>

NextNoaa ==
    \/ CallTrimFile
    \/ CallMakeOneGroup
SpecNoaa == InitNoaa /\ [][NextNoaa]_vars

Init ==
    InitInterp \/ InitAnnual \/ InitCountry \/ InitBatch \/ InitReaders
       \/ InitToken \/ InitNoaa
Next ==
    \/ stage = "idle" /\ (NextInterp \/ NextAnnual \/ NextCountry \/ NextReaders
                            \/ NextToken \/ NextNoaa)
    \/ NextBatch
Spec == Init /\ [][Next]_vars

-----------------------------------------------------------------------------
(* Properties of the interpolation stage, checked under SpecInterp *)

\* The interpolated grid of a base variable for the period and the lattice of
\* the call that has just returned.
BaseGrid(var) ==
    interpolation_NOAA_points(var, ret.year, ret.month, ret.kind, ret.xi)

\* Both base grids of the derived variables exist and share a lattice point.
BaseGridsShareAPoint ==
    /\ ~ IsExc(BaseGrid("TAVG"))
    /\ ~ IsExc(BaseGrid("PRCP"))
    /\ Points(BaseGrid("TAVG")) \cap Points(BaseGrid("PRCP")) # {}

SharedPoints == Points(BaseGrid("TAVG")) \cap Points(BaseGrid("PRCP"))

ValueAt(var, p) == Cell(BaseGrid(var), RowAt(BaseGrid(var), p), var)

\* C1: for every period and every lattice point present in both the
\* interpolated TAVG grid and the interpolated PRCP grid,
\* interpolation_NOAA_points called with var = 'HUMID' returns a row at that
\* point whose HUMID value equals PRCP * (TAVG + 273.15); TAVG = 10 and
\* PRCP = 5 give HUMID = 1415.75 (28315 units of 0.05).
C1_HumidFormula ==
    (ret.fn = "interpolation_NOAA_points" /\ ret.var = "HUMID"
       /\ BaseGridsShareAPoint) =>
        /\ ~ IsExc(ret.result)
        /\ \A p \in SharedPoints :
              \E i \in 1..Len(ret.result.rows) :
                 LET row == ret.result.rows[i]
                     humid == Cell(ret.result, row, "HUMID")
                 IN  /\ row.p = p
                     /\ humid * UnitsPerOne
                          = ValueAt("PRCP", p) * (ValueAt("TAVG", p) + Kelvin)
                     /\ (ValueAt("TAVG", p) = 200 /\ ValueAt("PRCP", p) = 100)
                           => humid = 28315

\* C2: for every period and every lattice point present in both the
\* interpolated TAVG grid and the interpolated PRCP grid,
\* interpolation_NOAA_points called with var = 'HETSTRS' returns a row at
\* that point whose HETSTRS value equals PRCP * (TAVG - 20); TAVG = 10 and
\* PRCP = 5 give HETSTRS = -50 (-1000 units of 0.05).
C2_HeatStressFormula ==
    (ret.fn = "interpolation_NOAA_points" /\ ret.var = "HETSTRS"
       /\ BaseGridsShareAPoint) =>
        /\ ~ IsExc(ret.result)
        /\ \A p \in SharedPoints :
              \E i \in 1..Len(ret.result.rows) :
                 LET row == ret.result.rows[i]
                     hetstrs == Cell(ret.result, row, "HETSTRS")
                 IN  /\ row.p = p
                     /\ hetstrs * UnitsPerOne
                          = ValueAt("PRCP", p) * (ValueAt("TAVG", p) - Comfort)
                     /\ (ValueAt("TAVG", p) = 200 /\ ValueAt("PRCP", p) = 100)
                           => hetstrs = 0 - 1000

\* C3: a derived grid (HUMID or HETSTRS) asked for on a lattice is a grid
\* whose points are exactly the points that the TAVG grid and the PRCP grid
\* on that same lattice have in common; a point of only one base grid never
\* appears.
C3_DerivedGridPoints ==
    (ret.fn = "interpolation_NOAA_points" /\ ret.var \in {"HUMID", "HETSTRS"}
       /\ ~ IsExc(BaseGrid("TAVG")) /\ ~ IsExc(BaseGrid("PRCP"))
       /\ Points(BaseGrid("TAVG")) # Points(BaseGrid("PRCP"))) =>
        /\ ~ IsExc(ret.result)
        /\ Points(ret.result) = SharedPoints

-----------------------------------------------------------------------------
(* Properties of the annualization stage, checked under SpecAnnual *)

AnnualizeReturnedAGrid == ret.fn = "annualize_NOAA" /\ ~ IsExc(ret.result)

\* The monthly file that the call which has just returned read for a month.
MonthlyGrid(month) == interpolated[<<ret.var, ret.year, month>>]

\* C4: annualize_NOAA returns a row for a lattice point only if the point is
\* in the monthly grid of every month, and the annual grid has at most as
\* many rows as the smallest monthly grid.
C4_AnnualInnerJoin ==
    AnnualizeReturnedAGrid =>
        \A month \in Months :
            /\ ~ IsMissing(MonthlyGrid(month))
            /\ Points(ret.result) \subseteq Points(MonthlyGrid(month))
            /\ Len(ret.result.rows) <= Len(MonthlyGrid(month).rows)

\* An annual grid with a row, made from months one of which covers a point
\* that another month lacks.
C4_Witness ==
    /\ AnnualizeReturnedAGrid
    /\ Len(ret.result.rows) >= 1
    /\ \E month \in Months : Points(MonthlyGrid(month)) \ Points(ret.result) # {}

\* C5: every row of every annual grid produced by annualize_NOAA satisfies
\* min <= mean <= max.
C5_MinMeanMaxOrdered ==
    AnnualizeReturnedAGrid =>
        \A i \in 1..Len(ret.result.rows) :
            LET row == ret.result.rows[i]
            IN  /\ Cell(ret.result, row, "min") <= Cell(ret.result, row, "mean")
                /\ Cell(ret.result, row, "mean") <= Cell(ret.result, row, "max")

\* The monthly values of the variable at a point, in month order.
MonthlyValuesAt(p) ==
    [month \in Months |->
        Cell(MonthlyGrid(month), RowAt(MonthlyGrid(month), p), ret.var)]

\* C6: for base and derived variables alike, the result of annualize_NOAA
\* carries, besides LONGITUDE and LATITUDE, only the columns min, mean and
\* max, and at every point these are the minimum, the (floating-point)
\* arithmetic mean and the maximum of the point's monthly values.
C6_AggregatesOnly ==
    AnnualizeReturnedAGrid =>
        /\ Len(ret.result.cols) = 3
        /\ Range(ret.result.cols) = {"min", "mean", "max"}
        /\ \A i \in 1..Len(ret.result.rows) :
              LET row == ret.result.rows[i]
                  monthly == MonthlyValuesAt(row.p)
              IN  /\ Cell(ret.result, row, "min") = SeqMin(monthly)
                  /\ Cell(ret.result, row, "mean") = mean(monthly)
                  /\ Cell(ret.result, row, "max") = SeqMax(monthly)

-----------------------------------------------------------------------------
(* Properties of the country aggregation, checked under SpecCountry *)

\* p lies in the bounding box of the vertices, widened by one degree on each
\* side, bounds included.
InExpandedBox(p, vertices) ==
    /\ \E v \in Range(vertices) : v[1] - 1 <= p[1]
    /\ \E v \in Range(vertices) : p[1] <= v[1] + 1
    /\ \E v \in Range(vertices) : v[2] - 1 <= p[2]
    /\ \E v \in Range(vertices) : p[2] <= v[2] + 1

BoxRows(grid, vertices) ==
    SelectSeq(grid.rows, LAMBDA r : InExpandedBox(r.p, vertices))

\* C7: _spatial_climate_average returns as min, mean and max the arithmetic
\* mean of these columns over exactly the rows of the annual grid inside the
\* expanded box of the boundary's vertices (bounds inclusive); no row outside
\* the box influences the result.
C7_SpatialAverage ==
    ret.fn = "_spatial_climate_average" =>
        LET grid == annualized[<<ret.var, ret.year>>]
            rows == BoxRows(grid, shapes[ret.n].points)
        IN  Len(rows) > 0 =>
               \A name \in {"min", "mean", "max"} :
                   ret.result[name]
                     = Num(mean([i \in 1..Len(rows) |-> Cell(grid, rows[i], name)]))

\* The example: vertices (0,0), (0,10), (10,10), (10,0), rows at (5,5) with
\* min 1, mean 2, max 3 and at (50,50): the average is exactly (1, 2, 3).
C7_Witness ==
    /\ ret.fn = "_spatial_climate_average"
    /\ ret.var = "TAVG"
    /\ shapes[ret.n].points = << <<0, 0>>, <<0, 10>>, <<10, 10>>, <<10, 0>> >>
    /\ Points(annualized[<<"TAVG", ret.year>>]) = {<<5, 5>>, <<50, 50>>}
    /\ ret.result["min"] = Num(ToUnits(1))
    /\ ret.result["mean"] = Num(ToUnits(2))
    /\ ret.result["max"] = Num(ToUnits(3))

\* Some boundary record of the name has a row of the variable's annual grid
\* in its expanded box.
HasGridRows(name, var, year) ==
    \E n \in 1..Len(shapes) :
        /\ shapes[n].NAME = name
        /\ Len(BoxRows(annualized[<<var, year>>], shapes[n].points)) > 0

\* C8: when no row of the annual grid of (variable, year) is inside a
\* country's expanded box, the result of _load_country_climate holds no
\* record for that country.
C8_NoRecordForEmptyBox ==
    (ret.fn = "_load_country_climate" /\ ~ IsExc(ret.result)) =>
        \A n \in 1..Len(shapes) :
            ~ HasGridRows(shapes[n].NAME, ret.var, ret.year)
               => shapes[n].NAME \notin Countries(ret.result)

YearOf(row) == row.v[Len(row.v)][1]

\* The aggregates of variable number k (in the order of interp_vars) in a row
\* of the composite table.
AggregatesOf(row, k) == <<row.v[3 * k - 2], row.v[3 * k - 1], row.v[3 * k]>>

\* C10: the table written by build_composite_climate_df is the tables of the
\* years stacked in ascending year order: every row carries a year of the
\* range and the aggregates of that year's annual grids, and the rows of a
\* year are exactly the rows of that year's table, none dropped or made up.
C10_StackedByYear ==
    (ret.fn = "build_composite_climate_df" /\ ~ IsExc(ret.result)) =>
        /\ \A i \in 1..Len(combined.rows) : YearOf(combined.rows[i]) \in Years
        /\ \A i \in 1..(Len(combined.rows) - 1) :
              YearOf(combined.rows[i]) <= YearOf(combined.rows[i + 1])
        /\ \A year \in Years :
              SelectSeq(combined.rows, LAMBDA r : YearOf(r) = year)
                = _load_climate_year(year).rows
        /\ \A i \in 1..Len(combined.rows) :
              \A k \in 1..Len(interp_vars) :
                 \E n \in 1..Len(shapes) :
                    LET row == combined.rows[i]
                        average == _spatial_climate_average(
                                      annualized[<<interp_vars[k], YearOf(row)>>],
                                      shapes[n].points)
                    IN  /\ shapes[n].NAME = row.country
                        /\ AggregatesOf(row, k)
                             = <<average["min"], average["mean"], average["max"]>>

\* A written table with rows of the first and of a later year, whose
\* aggregates of some variable differ between two years.
C10_Witness ==
    /\ ret.fn = "build_composite_climate_df"
    /\ ~ IsExc(ret.result)
    /\ \E i, j \in 1..Len(combined.rows) :
          /\ YearOf(combined.rows[i]) = FirstYear
          /\ YearOf(combined.rows[j]) > FirstYear
          /\ combined.rows[i].country = combined.rows[j].country
          /\ \E k \in 1..Len(interp_vars) :
                AggregatesOf(combined.rows[i], k) # AggregatesOf(combined.rows[j], k)

-----------------------------------------------------------------------------
(* Properties of the grid of a base variable, checked under SpecInterp *)

\* C17: the grid returned for a base variable has a row for a point of the
\* target lattice exactly when the interpolated value there is defined, one
\* row per such point, holding that value (no row is zero-filled or NaN),
\* and every row is on the target lattice; the default lattice is the
\* integer grid longitude -180..179, latitude -90..89 of 64,800 points.
C17_RowsWhereDefined ==
    (ret.fn \in {"interpolation_NOAA_points", "interpolate_NOAA"}
       /\ ret.var \in DATA_COLUMNS /\ ~ IsExc(ret.result)) =>
        LET xi == IF ret.fn = "interpolate_NOAA" THEN FullXi ELSE ret.xi
            source_df == compiled[<<ret.var, ret.year, ret.month>>]
            defined == {p \in Range(xi) : ~ IsNaN(source_df.interp[p])}
        IN  /\ Points(ret.result) = defined
            /\ Len(ret.result.rows) = Cardinality(defined)
            /\ \A i \in 1..Len(ret.result.rows) :
                  <<Cell(ret.result, ret.result.rows[i], ret.var)>>
                     = source_df.interp[ret.result.rows[i].p]
            /\ range(XStart, XStop) = (0 - 180)..179
            /\ range(YStart, YStop) = (0 - 90)..89
            /\ Cardinality(range(XStart, XStop)) * Cardinality(range(YStart, YStop))
                  = 64800

\* A grid on the default lattice with a row at one point and none at the
\* other, where the interpolated value is undefined.
C17_Witness ==
    /\ ret.fn = "interpolate_NOAA"
    /\ ret.var \in DATA_COLUMNS
    /\ ~ IsExc(ret.result)
    /\ Len(ret.result.rows) = 1
    /\ \E p \in Range(FullXi) :
          IsNaN(compiled[<<ret.var, ret.year, ret.month>>].interp[p])

-----------------------------------------------------------------------------
(* Properties of the batch runs, checked under SpecBatch *)

\* The source files of a unit of the interpolation stage exist.
SourceExists(u) ==
    IF u[1] \in {"HUMID", "HETSTRS"}
    THEN /\ ~ IsMissing(compiled[<<"TAVG", u[2], u[3]>>])
         /\ ~ IsMissing(compiled[<<"PRCP", u[2], u[3]>>])
    ELSE ~ IsMissing(compiled[u])

\* C11: interpolate_all_NOAA is never aborted: it attempts every unit
\* (variable, year, month), reports and skips the units whose source file
\* is missing, and writes the grid file of every unit whose inputs exist.
C11_MissingSourceSkipsUnit ==
    ret.fn \in {"interpolate_all_NOAA", "process_NOAA"} =>
        /\ ~ IsExc(ret.result)
        /\ InterpolatedUnits \subseteq attempted
        /\ \A u \in InterpolatedUnits :
              IF SourceExists(u)
              THEN u \in written /\ ~ IsMissing(interpolated[u])
              ELSE u \in reported /\ u \notin written

\* Some monthly file of the pair is missing.
MonthMissing(pair) ==
    \E month \in Months : IsMissing(interpolated[<<pair[1], pair[2], month>>])

\* C12: annualize_all_NOAA processes every (variable, year) pair: a pair
\* with a missing monthly file is reported and gets no annual file written
\* by the run, every pair whose monthly files all exist gets its annual file
\* written, and no missing file ends the run.
C12_MissingMonthSkipsPair ==
    ret.fn = "annualize_all_NOAA" =>
        /\ ~ IsExc(ret.result)
        /\ \A pair \in AnnualizedUnits :
              /\ pair \in attempted
              /\ IF MonthMissing(pair)
                 THEN pair \in reported /\ pair \notin written
                 ELSE /\ pair \in written
                      /\ pair \notin reported
                      /\ annualized[pair] = annualize_NOAA(pair[1], pair[2])

\* A finished run that skipped a pair some of whose monthly files exist and
\* wrote the annual file of another pair.
C12_Witness ==
    /\ ret.fn = "annualize_all_NOAA"
    /\ ~ IsExc(ret.result)
    /\ written # {}
    /\ \E pair \in reported :
          \E month \in Months : ~ IsMissing(interpolated[<<pair[1], pair[2], month>>])

\* C14: a batch run skips every unit whose output file already exists: the
\* unit is not written by the run and its file stays as it is.
C14_CachedUnitsSkipped ==
    [][ /\ \A u \in InterpolatedUnits :
              ~ IsMissing(interpolated[u]) =>
                  /\ interpolated'[u] = interpolated[u]
                  /\ u \in written' => u \in written
        /\ \A pair \in AnnualizedUnits :
              ~ IsMissing(annualized[pair]) =>
                  /\ annualized'[pair] = annualized[pair]
                  /\ pair \in written' => pair \in written ]_vars

CurrentMonthUnit == <<order[unit[1]], unit[2], unit[3]>>
CurrentYearUnit == <<order[unit[1]], unit[2]>>

\* the cache file of a unit, and the grid the unit computes
CacheFile(u) == IF Len(u) = 3 THEN interpolated[u] ELSE annualized[u]
UnitGrid(u) ==
    IF Len(u) = 3 THEN interpolate_NOAA(u[1], u[2], u[3], method)
                  ELSE annualize_NOAA(u[1], u[2])

-----------------------------------------------------------------------------
(* Properties of the composite build, checked under SpecCountry *)

\* C13: when the annual file of some tracked (variable, year) is absent,
\* build_composite_climate_df skips that unit and goes on: it does not end
\* in an exception and the composite table is written.
C13_MissingAnnualFileSkipped ==
    (ret.fn = "build_composite_climate_df"
       /\ \E var \in Range(MODEL_CLIMATE_VARS), year \in Years :
             IsMissing(annualized[<<var, year>>])) =>
        /\ ~ IsExc(ret.result)
        /\ ~ IsMissing(combined)

\* the squared distance of a grid row from the point c (in units of 0.05)
Dist2(row, c) ==
    (ToUnits(row.p[1]) - c[1]) * (ToUnits(row.p[1]) - c[1])
      + (ToUnits(row.p[2]) - c[2]) * (ToUnits(row.p[2]) - c[2])

\* the rows of the grid nearest the point c
NearestRows(df, c) ==
    {i \in 1..Len(df.rows) :
        \A j \in 1..Len(df.rows) : Dist2(df.rows[i], c) <= Dist2(df.rows[j], c)}

\* C20: _load_country_climate has a selectable centre-point mode: called in
\* that mode on an annual grid with rows, it returns for every boundary
\* record the min, mean and max of the grid row nearest the record's
\* centroid, the unweighted mean of its vertices.
C20_CenterPointMode ==
    (ret.fn = "_load_country_climate"
       /\ "mode" \in DOMAIN ret
       /\ ~ IsMissing(annualized[<<ret.var, ret.year>>])) =>
        LET grid == annualized[<<ret.var, ret.year>>]
        IN  (ret.mode = "center" /\ Len(grid.rows) > 0) =>
               /\ ~ IsExc(ret.result)
               /\ \A n \in 1..Len(shapes) :
                     \E i \in NearestRows(grid, _get_center_of_shp(shapes[n])) :
                         ret.result.rows[n].v
                           = <<Num(Cell(grid, grid.rows[i], "min")),
                               Num(Cell(grid, grid.rows[i], "mean")),
                               Num(Cell(grid, grid.rows[i], "max"))>>

-----------------------------------------------------------------------------
(* Properties of the readers, checked under SpecReaders *)

\* the value is within the limits of its dimension
InRange(value, dimension) ==
    \/ dimension = "Celsius" /\ ToUnits(0 - 95) <= value /\ value <= ToUnits(65)
    \/ dimension = "mm" /\ 0 <= value /\ value <= ToUnits(30000)

\* the retained tuples of the source file of a call of asc_to_filtered_csv
RetainedOf(call) ==
    retained(call.infile, call.xskip, call.yskip,
             call.box[1], call.box[2], call.box[3], call.box[4],
             SCALE_LOOKUP[Lower(call.label)])

DimensionOf(call) == DIMENSION_LOOKUP[Lower(call.label)]

\* C18: for the dimensions Celsius and mm, check_bounds accepts a retained
\* value exactly when -95 <= v <= 65 (Celsius) or 0 <= v <= 30000 (mm); a
\* call of asc_to_filtered_csv leaves the output file as it was when some
\* retained value is out of range, and otherwise writes the file with all
\* the retained rows.
C18_RejectWholeFile ==
    [][ (ret'.fn = "asc_to_filtered_csv"
           /\ DimensionOf(ret') \in {"Celsius", "mm"}) =>
          LET rows == RetainedOf(ret')
              dimension == DimensionOf(ret')
          IN  /\ \A i \in 1..Len(rows) :
                    check_bounds(rows[i][3], dimension)
                       <=> InRange(rows[i][3], dimension)
              /\ IF \A i \in 1..Len(rows) : InRange(rows[i][3], dimension)
                 THEN filtered' = [label |-> ret'.label, rows |-> rows]
                 ELSE filtered' = filtered ]_vars

\* A source file with a retained value in range and another out of range
\* was refused, and the file of an earlier run is still there.
C18_Witness ==
    /\ ret.fn = "asc_to_filtered_csv"
    /\ DimensionOf(ret) = "Celsius"
    /\ \E i, j \in 1..Len(RetainedOf(ret)) :
          /\ InRange(RetainedOf(ret)[i][3], "Celsius")
          /\ ~ InRange(RetainedOf(ret)[j][3], "Celsius")
    /\ filtered = EarlierCsv

\* the fields of the header of a file (none for a file without lines)
HeaderFields(source_file) ==
    IF Len(source_file) = 0 THEN {} ELSE Range(Head(source_file))

\* C19: read_source_header raises ValueError whenever an id field is absent
\* from the header of the source file, and otherwise returns the fields of
\* the header that are among data_fields.
C19_MissingIdIsValueError ==
    ret.fn = "read_source_header" =>
        IF ret.id_fields \ HeaderFields(ret.source_file) # {}
        THEN ret.result = Exc("ValueError")
        ELSE /\ ~ IsExc(ret.result)
             /\ ret.result.filtered_data_fields
                  = HeaderFields(ret.source_file) \cap ret.data_fields

-----------------------------------------------------------------------------
(* Further properties of the batch runs, the readers and the composite     *)

\* C27: a pass of annualize_all_NOAA that fails with a missing monthly file
\* leaves every annual file as it is, the file of its own pair included, and
\* the run does not touch the file of a reported pair afterwards: an annual
\* grid of an earlier run stays readable.
C27_StaleAnnualFileKept ==
    [][ stage = "annualize" =>
          /\ reported' # reported => annualized' = annualized
          /\ \A pair \in reported \cap reported' :
                annualized'[pair] = annualized[pair] ]_vars

\* A finished run reported a pair whose annual file, left by an earlier run,
\* is still read by load_annualized_NOAA.
C27_Witness ==
    /\ ret.fn = "annualize_all_NOAA"
    /\ \E pair \in reported :
          /\ MonthMissing(pair)
          /\ annualized[pair] = EarlierAnnualFile(pair)
          /\ load_annualized_NOAA(pair[1], pair[2]) = EarlierAnnualFile(pair)

\* C28: check_bounds refuses every value of a dimension that is neither
\* Celsius nor mm, so asc_to_filtered_csv with a label of such a dimension
\* (the default label 'value') leaves the output as it was for every source
\* with a retained value.
C28_UnknownDimensionRefused ==
    [][ (ret'.fn = "asc_to_filtered_csv"
           /\ DimensionOf(ret') \notin {"Celsius", "mm"}) =>
          /\ \A i \in 1..Len(RetainedOf(ret')) :
                ~ check_bounds(RetainedOf(ret')[i][3], DimensionOf(ret'))
          /\ \A value \in {ToUnits(0 - 96), 0, ToUnits(20), ToUnits(30001)} :
                ~ check_bounds(value, DimensionOf(ret'))
          /\ Len(RetainedOf(ret')) > 0 => filtered' = filtered ]_vars

\* A call with the label 'value' on a source whose retained values are all
\* ordinary temperatures, and no output file.
C28_Witness ==
    /\ ret.fn = "asc_to_filtered_csv"
    /\ ret.label = "value"
    /\ Len(RetainedOf(ret)) > 0
    /\ \A i \in 1..Len(RetainedOf(ret)) : InRange(RetainedOf(ret)[i][3], "Celsius")
    /\ filtered = Missing

\* C29: in the table written by build_composite_climate_df no two rows have
\* the same country and the same Year.
C29_CountryYearIsKey ==
    (ret.fn = "build_composite_climate_df" /\ ~ IsExc(ret.result)) =>
        \A i, j \in 1..Len(combined.rows) :
            (combined.rows[i].country = combined.rows[j].country
               /\ YearOf(combined.rows[i]) = YearOf(combined.rows[j])) => i = j

-----------------------------------------------------------------------------
(* Properties of asc_to_array, checked under SpecReaders *)

\* ceil(a / b) for b > 0
CeilDiv(a, b) == (a + b - 1) \div b

C24_TuplesWithinCallerBounds ==
    (ret.fn = "asc_to_array" /\ ~ IsExc(ret.result)) =>
        \A i \in 1..Len(ret.result.data_array) :
            LET x == ret.result.data_array[i][1]
                y == ret.result.data_array[i][2]
            IN  /\ ret.box[1] <= x /\ x <= ret.box[2]
                /\ ret.box[3] <= y /\ y <= ret.box[4]
                /\ ~ skip_this_pos(x, y, ret.box[1], ret.box[2], ret.box[3], ret.box[4])
                /\ x >= ret.infile.fmt.xllcorner
                /\ y >= ret.infile.fmt.yllcorner

\* C26: when asc_to_array processes token number k (from 0, nulls counted),
\* xn = k mod ncols and yn = k div ncols, so 0 <= xn < ncols, and
\* 0 <= yn < nrows for a file of ncols * nrows tokens; the tuples returned
\* stand at the positions of these columns and rows.
C26_LogicalRowAndColumn ==
    (ret.fn = "asc_to_array" /\ ~ IsExc(ret.result)) =>
        LET fmt == ret.infile.fmt
            n == Len(ret.infile.tokens)
            kept == SelectSeq([k \in 1..n |-> k - 1],
                              LAMBDA k :
                                 \E i \in 1..Len(ret.result.data_array) :
                                    ret.result.data_array[i][1]
                                       = fmt.xllcorner + (k % fmt.ncols) * fmt.cellsize
                                    /\ ret.result.data_array[i][2]
                                       = fmt.yllcorner
                                           + (IF ret.version = "new"
                                              THEN fmt.nrows - (k \div fmt.ncols)
                                              ELSE k \div fmt.ncols) * fmt.cellsize)
        IN  /\ \A k \in 0..(n - 1) :
                  /\ Counters(fmt.ncols, k + 1) = <<k % fmt.ncols, k \div fmt.ncols>>
                  /\ 0 <= Counters(fmt.ncols, k + 1)[1]
                  /\ Counters(fmt.ncols, k + 1)[1] < fmt.ncols
                  /\ 0 <= Counters(fmt.ncols, k + 1)[2]
                  /\ Counters(fmt.ncols, k + 1)[2] < fmt.nrows
            /\ Len(kept) = Len(ret.result.data_array)
            /\ \A i \in 1..Len(kept) :
                  /\ ret.infile.tokens[kept[i] + 1] # fmt.null
                  /\ (kept[i] % fmt.ncols) % (ret.xskip + 1) = 0
                  /\ (kept[i] \div fmt.ncols) % (ret.yskip + 1) = 0

\* A grid of three columns and two rows whose last token, number 5, is
\* returned from column 2 of row 1.
C26_Witness ==
    /\ ret.fn = "asc_to_array"
    /\ ret.version = "new"
    /\ ret.infile.fmt.ncols = 3
    /\ ret.infile.fmt.nrows = 2
    /\ ret.xskip = 1
    /\ ret.yskip = 0
    /\ ~ IsExc(ret.result)
    /\ \E i \in 1..Len(ret.result.data_array) :
          ret.result.data_array[i] = <<0 - 124, 24, ToUnits(20)>>

-----------------------------------------------------------------------------
(* Properties of read_token, checked under SpecToken *)

\* the characters that separate tokens
IsSpace(c) == c \in {" ", "\t", "\n", "\r", "VT", "\f"}

\* the maximal runs <<first, last>> of characters of the file that are not
\* spaces
Runs ==
    LET chars == token_fp.chars
    IN  { run \in (1..Len(chars)) \X (1..Len(chars)) :
            /\ run[1] <= run[2]
            /\ \A i \in run[1]..run[2] : ~ IsSpace(chars[i])
            /\ run[1] = 1 \/ IsSpace(chars[run[1] - 1])
            /\ run[2] = Len(chars) \/ IsSpace(chars[run[2] + 1]) }

\* the n-th run from the start of the file
RunAt(n) ==
    CHOOSE run \in Runs :
        Cardinality({other \in Runs : other[1] < run[1]}) = n - 1

\* C25: successive calls of read_token on a file return its
\* whitespace-delimited tokens in order, each non-empty and free of
\* whitespace; once they are exhausted every further call returns ''.
C25_TokensInOrderThenEmpty ==
    \A n \in 1..Len(tokens) :
        IF n <= Cardinality(Runs)
        THEN /\ tokens[n] = SubSeq(token_fp.chars, RunAt(n)[1], RunAt(n)[2])
             /\ tokens[n] # <<>>
             /\ \A i \in 1..Len(tokens[n]) : ~ IsSpace(tokens[n][i])
        ELSE tokens[n] = <<>>

\* A file that starts with a newline and holds two tokens, after four calls:
\* both tokens, then '' twice.
C25_Witness ==
    /\ token_fp.chars = <<"\n", "a", " ", "b">>
    /\ tokens = << <<"a">>, <<"b">>, <<>>, <<>> >>

-----------------------------------------------------------------------------
(* Properties of trim_file and _make_one_group, checked under SpecNoaa *)

\* 'YYYY-MM' with the month padded to two digits
YearMonth(year, month) ==
    ToString(year) \o "-"
       \o <<"01", "02", "03", "04", "05", "06",
            "07", "08", "09", "10", "11", "12">>[month]

\* the row holds a value for var and is of the date
Matches(var, row, date) ==
    /\ var \in DOMAIN row
    /\ row[var] # ""
    /\ row["DATE"] = date

\* the rows of the files of the list, file after file
RECURSIVE RowsOf(_, _)
RowsOf(source_dir, source_list) ==
    IF source_list = <<>> THEN <<>>
    ELSE source_dir[Head(source_list)].rows
            \o RowsOf(source_dir, Tail(source_list))

\* the rows of the call of _make_one_group in ret that match, reduced to
\* LONGITUDE, LATITUDE and the variable
MatchingRows ==
    LET matching == SelectSeq(RowsOf(ret.source_dir, ret.source_list),
                              LAMBDA row :
                                 Matches(ret.var, row,
                                         YearMonth(ret.year, ret.month)))
    IN  [i \in 1..Len(matching) |->
            [col \in {"LONGITUDE", "LATITUDE", ret.var} |-> matching[i][col]]]

\* the rows of a file, none when the file is not there
RowsIn(file) == IF IsMissing(file) THEN <<>> ELSE file.rows

\* C21: _to_be_written(var, row, date_str) is True exactly when var is a key
\* of the row, its value is not '' and the DATE of the row equals date_str;
\* the grouped file of _make_one_group holds exactly the source rows with a
\* value for var and DATE 'YYYY-MM' (month zero-padded), reduced to
\* LONGITUDE, LATITUDE and var.
C21_GroupedRowsAreTheMatches ==
    ret.fn = "_make_one_group" =>
        /\ \A name \in DOMAIN ret.source_dir :
              \A i \in 1..Len(ret.source_dir[name].rows) :
                 \A var \in DATA_COLUMNS, date \in Range(DateStrings) :
                    _to_be_written(var, ret.source_dir[name].rows[i], date)
                       <=> Matches(var, ret.source_dir[name].rows[i], date)
        /\ RowsIn(grouped) = MatchingRows
        /\ ~ IsMissing(grouped) =>
              grouped.fieldnames = <<"LONGITUDE", "LATITUDE", ret.var>>

\* The file of PRCP for January 1995 from a station with an observation of
\* '1995-01' and one of '1995-1': only the first is written.
C21_Witness ==
    /\ ret.fn = "_make_one_group"
    /\ ret.var = "PRCP"
    /\ ret.month = 1
    /\ ret.source_list = <<"USW1.csv">>
    /\ Len(ret.source_dir["USW1.csv"].rows) = 2
    /\ ret.source_dir["USW1.csv"].rows[1]["DATE"] = "1995-1"
    /\ ret.source_dir["USW1.csv"].rows[1]["PRCP"] = "7"
    /\ ~ IsMissing(grouped)
    /\ grouped.rows
         = << [LONGITUDE |-> "-100", LATITUDE |-> "40", PRCP |-> "5"] >>

\* C22: trim_file omits every record that lacks any of the id fields, so
\* every written record holds a value for each id field; of the others
\* exactly those with DATE >= min_date are written, restricted to the id
\* fields and the data fields found in the header.
C22_RecordsWithoutIdOmitted ==
    (ret.fn = "trim_file" /\ ~ IsExc(ret.result) /\ ret.result.columns # {}) =>
        LET id_fields == IF ret.id_fields = None THEN ID_COLUMNS
                         ELSE ret.id_fields.set
            data_fields == IF ret.data_fields = None THEN DATA_COLUMNS
                           ELSE ret.data_fields.set
            all_fields == id_fields \cup (data_fields \cap HeaderFields(ret.input))
            complete == SelectSeq(DictRows(ret.input),
                                  LAMBDA row :
                                     /\ \A f \in id_fields : row[f] # ""
                                     /\ StrGe(row["DATE"], ret.min_date))
        IN  /\ \A i \in 1..Len(RowsIn(trimmed)) :
                  \A f \in id_fields : RowsIn(trimmed)[i][f] # ""
            /\ RowsIn(trimmed)
                 = [i \in 1..Len(complete) |->
                       [f \in all_fields |-> complete[i][f]]]

\* C30: after _make_one_group the grouped file exists exactly when at least
\* one source row matched; a file with a header and no record is never left,
\* whatever was at the destination before.
C30_GroupedFileIffMatch ==
    ret.fn = "_make_one_group" =>
        /\ IsMissing(grouped) <=> MatchingRows = <<>>
        /\ ~ IsMissing(grouped) => Len(grouped.rows) >= 1

\* A grouped file of an earlier run is at the destination, the station
\* read has records and none of them matches: the file is gone.
C30_Witness ==
    /\ ret.fn = "_make_one_group"
    /\ ret.dest = EarlierGrouped
    /\ ret.source_list # <<>>
    /\ Len(RowsOf(ret.source_dir, ret.source_list)) > 0
    /\ MatchingRows = <<>>
    /\ IsMissing(grouped)

====
